---- MODULE Spec2Model ----
(***************************************************************************)
(* xtop eBPF collectors (src/collector/ebpf/bpf/*.c): the BPF hash maps    *)
(* each object declares and the handlers that update them.                 *)
(*                                                                         *)
(* Numbers.  TLC integers are 32 bits wide, the program's are __u32 and    *)
(* __u64 holding nanoseconds.  An unsigned value is written as a word      *)
(* <<a, b, c>> of three base-10^9 digits, a * 10^18 + b * 10^9 + c, so     *)
(* <<0, 30, 0>> is 30000000000 (30 s in ns) and <<0, 4, 294967295>> is     *)
(* 0xFFFFFFFF.  Add64/Sub64/Add32 are the C operations at their width.     *)
(***************************************************************************)
EXTENDS Integers, FiniteSets, Sequences, TLC

\* ------------------------------------------------------------------ bounds
\* max_entries of the maps, scaled down (the objects declare 256 .. 32768):
\* MaxEntries for the maps written with BPF_ANY (the *_start and *inflight maps
\* that pair a begin with its end, and oom_accum), MaxRecords for the maps the
\* upserts fill with BPF_NOEXIST (the accumulation maps).
MaxEntries == 2
MaxRecords == 1
\* handler invocations per behaviour
MaxEvents == 4

\* --------------------------------------------------------- unsigned words
Giga == 10^9

W(a, b, c) == <<a, b, c>>
Ns(n) == <<0, 0, n>>
Zero == Ns(0)
One == Ns(1)

Lt(x, y) ==
    \/ x[1] < y[1]
    \/ x[1] = y[1] /\ x[2] < y[2]
    \/ x[1] = y[1] /\ x[2] = y[2] /\ x[3] < y[3]
Gt(x, y) == Lt(y, x)
Le(x, y) == ~Lt(y, x)

AddRaw(x, y) ==
    LET c == x[3] + y[3]
        b == x[2] + y[2] + (c \div Giga)
        a == x[1] + y[1] + (b \div Giga)
    IN  <<a, b % Giga, c % Giga>>
\* x - y for x >= y
SubRaw(x, y) ==
    LET c  == x[3] - y[3]
        bc == IF c < 0 THEN 1 ELSE 0
        b  == x[2] - y[2] - bc
        bb == IF b < 0 THEN 1 ELSE 0
    IN  <<x[1] - y[1] - bb, b + bb * Giga, c + bc * Giga>>

Pow64 == <<18, 446744073, 709551616>>
Pow32 == <<0, 4, 294967296>>
U32_MAX == <<0, 4, 294967295>>

\* __u64 a + b, a - b; __u32 a + b
Add64(x, y) == LET s == AddRaw(x, y) IN IF Lt(s, Pow64) THEN s ELSE SubRaw(s, Pow64)
\* (the distance between the two values instead of the difference modulo 2^64)
Sub64_abs(x, y) == IF Lt(x, y) THEN SubRaw(y, x) ELSE SubRaw(x, y)
Sub64(x, y) == IF Lt(x, y) THEN SubRaw(AddRaw(x, Pow64), y) ELSE SubRaw(x, y)
Add32(x, y) == LET s == AddRaw(x, y) IN IF Lt(s, Pow32) THEN s ELSE SubRaw(s, Pow32)

\* --------------------------------------------------------------- BPF maps
\* A BPF_MAP_TYPE_HASH map is a function from the keys it holds to values.
EmptyMap == [k \in {} |-> Zero]

\* bpf_map_lookup_elem(&m, &k) returns a non-NULL pointer; m[k] is what it points to
bpf_map_lookup_elem(m, k) == k \in DOMAIN m

MapPut(m, k, v) == [x \in DOMAIN m \cup {k} |-> IF x = k THEN v ELSE m[x]]

\* flags BPF_ANY: create or replace; a new key in a full map is refused (-E2BIG)
\* (an update that keeps the value of a key the map already holds)
bpf_map_update_keep(m, k, v) ==
    IF k \in DOMAIN m \/ Cardinality(DOMAIN m) >= MaxEntries THEN m ELSE MapPut(m, k, v)

bpf_map_update_any(m, k, v) ==
    IF k \in DOMAIN m \/ Cardinality(DOMAIN m) < MaxEntries THEN MapPut(m, k, v) ELSE m

\* flags BPF_NOEXIST: create only; an existing key (-EEXIST) or a full map
\* (-E2BIG) leaves the map as it is
\* (an LRU map: a new key in a full map takes the place of another)
bpf_map_update_lru(m, k, v) ==
    IF k \in DOMAIN m THEN m
    ELSE IF Cardinality(DOMAIN m) < MaxRecords THEN MapPut(m, k, v)
    ELSE LET old == CHOOSE x \in DOMAIN m : TRUE IN
         MapPut([x \in DOMAIN m \ {old} |-> m[x]], k, v)

bpf_map_update_noexist(m, k, v) ==
    IF k \notin DOMAIN m /\ Cardinality(DOMAIN m) < MaxRecords THEN MapPut(m, k, v) ELSE m

\* (a delete that is left out)
bpf_map_delete_skip(m, k) == m

bpf_map_delete_elem(m, k) == [x \in DOMAIN m \ {k} |-> m[x]]

\* ------------------------------------------------------------------ state
VARIABLES
    attached,   \* the object whose programs are attached to their event sources
    maps,       \* the maps of the objects, by name
    clock,      \* the last value bpf_ktime_get_ns() returned
    events,     \* handler invocations so far
    begins,     \* pairing entries written so far
    last,       \* the handler invoked last
    cpus        \* per CPU, the handler invocation in progress (SMP behaviours)

vars == <<attached, maps, clock, events, begins, last, cpus>>

\* process (thread-group) ids; 0 is the idle task
Pids == 0 .. 3

\* staleness ceilings
Ceil5s == W(0, 5, 0)
Ceil10s == W(0, 10, 0)
Ceil30s == W(0, 30, 0)

\* the ceiling the attached object compares with (30 s where it has none)
Ceiling ==
    CASE attached = "pgfault" -> Ceil5s
      [] attached = "runqlat" -> Ceil10s
      [] OTHER -> Ceil30s

\* values bpf_ktime_get_ns() returns (CLOCK_MONOTONIC, ns since boot, never 0 by
\* the time a program is attached): 1 us, and the ceiling and the ceiling + 1 s
\* past it (the objects without a ceiling: 1 us, 2 us and 31 s past the first)
Times ==
    IF attached \in {"iolatency", "tcpconnlat", "oomkill"}
    THEN { Ns(1000), Ns(2000), W(0, 31, 1000) }
    ELSE { Ns(1000), AddRaw(Ceiling, Ns(1000)), AddRaw(Ceiling, W(0, 1, 1000)) }

\* (__u32)x: the low 32 bits
RECURSIVE Low32(_)
Low32(x) == IF Lt(x, Pow32) THEN x ELSE Low32(SubRaw(x, Pow32))

\* (a conversion to __u32 without the comparison)
Clamp32_cast(delta) == Low32(delta)

\* clamp of a __u64 duration to __u32
Clamp32(delta) == IF Gt(delta, U32_MAX) THEN U32_MAX ELSE Low32(delta)

Idle == [pc |-> "idle"]

\* One handler invocation runs from entry to return (the sequential behaviours).
Event(e) ==
    /\ events < MaxEvents
    /\ events' = events + 1
    /\ last' = e
    /\ \A c \in DOMAIN cpus : cpus[c].pc = "idle"
    /\ UNCHANGED <<attached, cpus>>

Began(m, k) == IF k \in DOMAIN m THEN 1 ELSE 0

\* ---------------------------------------------------------- directreclaim.c
reclaim_upsert(acc, pid, delta) ==
    IF bpf_map_lookup_elem(acc, pid)
    THEN MapPut(acc, pid, [acc[pid] EXCEPT !.stall_ns = Add64(@, delta),
                                           !.count = Add32(@, One)])
    ELSE bpf_map_update_noexist(acc, pid, [stall_ns |-> delta, count |-> One])

handle_reclaim_begin(pid, t) ==
    /\ attached = "directreclaim"
    /\ Event("handle_reclaim_begin")
    /\ IF pid = 0
       THEN UNCHANGED <<maps, clock, begins>>
       ELSE /\ clock' = t
            /\ maps' = [maps EXCEPT !.reclaim_start = bpf_map_update_any(@, pid, t)]
            /\ begins' = begins + Began(maps'.reclaim_start, pid)

\* (an end without the staleness check)
handle_reclaim_end_nocheck(pid, t) ==
    /\ attached = "directreclaim"
    /\ Event("handle_reclaim_end")
    /\ UNCHANGED begins
    /\ IF pid = 0 \/ ~bpf_map_lookup_elem(maps.reclaim_start, pid)
       THEN UNCHANGED <<maps, clock>>
       ELSE LET delta == Sub64(t, maps.reclaim_start[pid]) IN
            /\ clock' = t
            /\ maps' = [maps EXCEPT
                         !.reclaim_start = bpf_map_delete_elem(@, pid),
                         !.reclaim_accum = reclaim_upsert(@, pid, delta)]

handle_reclaim_end(pid, t) ==
    /\ attached = "directreclaim"
    /\ Event("handle_reclaim_end")
    /\ UNCHANGED begins
    /\ IF pid = 0 \/ ~bpf_map_lookup_elem(maps.reclaim_start, pid)
       THEN UNCHANGED <<maps, clock>>
       ELSE LET delta == Sub64(t, maps.reclaim_start[pid]) IN
            /\ clock' = t
            /\ maps' = [maps EXCEPT
                         !.reclaim_start = bpf_map_delete_elem(@, pid),
                         !.reclaim_accum = IF Gt(delta, Ceil30s) THEN @
                                           ELSE reclaim_upsert(@, pid, delta)]

\* --------------------------------------------------------------- lockwait.c
FUTEX_WAIT == 0
FUTEX_WAIT_BITSET == 9
FUTEX_LOCK_PI == 6

\* ctx->op of sys_enter_futex: FUTEX_WAIT, FUTEX_WAKE (1) and
\* FUTEX_WAIT_BITSET | FUTEX_PRIVATE_FLAG (128)
FutexOps == { FUTEX_WAIT, 1, FUTEX_WAIT_BITSET + 128 }

\* (a merge that stores the sample instead of adding it)
futex_upsert_store(acc, pid, delta) ==
    IF bpf_map_lookup_elem(acc, pid)
    THEN MapPut(acc, pid, [acc[pid] EXCEPT !.total_wait_ns = delta,
                                           !.count = Add32(@, One)])
    ELSE bpf_map_update_noexist(acc, pid, [total_wait_ns |-> delta, count |-> One])

futex_upsert(acc, pid, delta) ==
    IF bpf_map_lookup_elem(acc, pid)
    THEN MapPut(acc, pid, [acc[pid] EXCEPT !.total_wait_ns = Add64(@, delta),
                                           !.count = Add32(@, One)])
    ELSE bpf_map_update_noexist(acc, pid, [total_wait_ns |-> delta, count |-> One])

\* lockwait.c:48-59: the handler on the tables
futex_enter_body(pid, futexop, t) ==
    /\ LET op == futexop % 128 IN          \* ctx->op & 0x7F
       IF (op # FUTEX_WAIT /\ op # FUTEX_WAIT_BITSET /\ op # FUTEX_LOCK_PI) \/ pid = 0
       THEN UNCHANGED <<maps, clock, begins>>
       ELSE /\ clock' = t
            /\ maps' = [maps EXCEPT !.futex_start = bpf_map_update_any(@, pid, t)]
            /\ begins' = begins + Began(maps'.futex_start, pid)

handle_futex_enter(pid, futexop, t) ==
    /\ attached = "lockwait"
    /\ Event("handle_futex_enter")
    /\ futex_enter_body(pid, futexop, t)

\* lockwait.c:65-88: the handler on the tables
futex_exit_body(pid, t) ==
    /\ UNCHANGED begins
    /\ IF pid = 0 \/ ~bpf_map_lookup_elem(maps.futex_start, pid)
       THEN UNCHANGED <<maps, clock>>
       ELSE LET delta == Sub64(t, maps.futex_start[pid]) IN
            /\ clock' = t
            /\ maps' = [maps EXCEPT
                         !.futex_start = bpf_map_delete_elem(@, pid),
                         !.futex_accum = IF delta = Zero \/ Gt(delta, Ceil30s) THEN @
                                         ELSE futex_upsert(@, pid, delta)]

handle_futex_exit(pid, t) ==
    /\ attached = "lockwait"
    /\ Event("handle_futex_exit")
    /\ futex_exit_body(pid, t)

\* ---------------------------------------------------------------- pgfault.c
\* (ret & VM_FAULT_MAJOR) ? 1 : 0 is the event's is_major
pgfault_upsert(acc, pid, delta, is_major) ==
    IF bpf_map_lookup_elem(acc, pid)
    THEN MapPut(acc, pid, [acc[pid] EXCEPT
                             !.total_ns = Add64(@, delta),
                             !.count = Add32(@, One),
                             !.major_count = IF is_major = 1 THEN Add32(@, One) ELSE @])
    ELSE bpf_map_update_noexist(acc, pid,
            [total_ns |-> delta, count |-> One,
             major_count |-> IF is_major = 1 THEN One ELSE Zero])

\* (a begin that records the fault only while the table is less than half full)
handle_fault_enter_half(pid, t) ==
    /\ attached = "pgfault"
    /\ Event("handle_fault_enter")
    /\ IF pid = 0
       THEN UNCHANGED <<maps, clock, begins>>
       ELSE /\ clock' = t
            /\ maps' = [maps EXCEPT !.pgfault_start =
                           IF 2 * Cardinality(DOMAIN @) >= MaxEntries /\ pid \notin DOMAIN @
                           THEN @ ELSE bpf_map_update_any(@, pid, t)]
            /\ begins' = begins + Began(maps'.pgfault_start, pid)

handle_fault_enter(pid, t) ==
    /\ attached = "pgfault"
    /\ Event("handle_fault_enter")
    /\ IF pid = 0
       THEN UNCHANGED <<maps, clock, begins>>
       ELSE /\ clock' = t
            /\ maps' = [maps EXCEPT !.pgfault_start = bpf_map_update_any(@, pid, t)]
            /\ begins' = begins + Began(maps'.pgfault_start, pid)

\* (an end that does not test the lookup's result and reads a start of 0)
handle_fault_exit_nonull(pid, is_major, t) ==
    /\ attached = "pgfault"
    /\ Event("handle_fault_exit")
    /\ UNCHANGED begins
    /\ IF pid = 0
       THEN UNCHANGED <<maps, clock>>
       ELSE LET ts == IF bpf_map_lookup_elem(maps.pgfault_start, pid)
                      THEN maps.pgfault_start[pid] ELSE Zero
                delta == Sub64(t, ts)
            IN
            /\ clock' = t
            /\ maps' = [maps EXCEPT
                         !.pgfault_start = bpf_map_delete_elem(@, pid),
                         !.pgfault_accum = IF Gt(delta, Ceil5s) THEN @
                                           ELSE pgfault_upsert(@, pid, delta, is_major)]

handle_fault_exit(pid, is_major, t) ==
    /\ attached = "pgfault"
    /\ Event("handle_fault_exit")
    /\ UNCHANGED begins
    /\ IF pid = 0 \/ ~bpf_map_lookup_elem(maps.pgfault_start, pid)
       THEN UNCHANGED <<maps, clock>>
       ELSE LET delta == Sub64(t, maps.pgfault_start[pid]) IN
            /\ clock' = t
            /\ maps' = [maps EXCEPT
                         !.pgfault_start = bpf_map_delete_elem(@, pid),
                         !.pgfault_accum = IF Gt(delta, Ceil5s) THEN @
                                           ELSE pgfault_upsert(@, pid, delta, is_major)]

\* ---------------------------------------------------------------- runqlat.c
\* a task: its thread-group id (tgid) and its own id (pid); the main thread of
\* a process has pid = tgid, and process 1 has a second thread
Tasks == { [tgid |-> g, pid |-> g] : g \in Pids } \cup { [tgid |-> 1, pid |-> 4] }

rqlat_upsert(acc, pid, delta) ==
    IF bpf_map_lookup_elem(acc, pid)
    THEN MapPut(acc, pid, [acc[pid] EXCEPT
                             !.total_ns = Add64(@, delta),
                             !.count = Add32(@, One),
                             !.max_ns = IF Gt(Clamp32(delta), @) THEN Clamp32(delta) ELSE @])
    ELSE bpf_map_update_noexist(acc, pid,
            [total_ns |-> delta, count |-> One, max_ns |-> Clamp32(delta)])

\* ctx->pid of sched_wakeup is the woken task's own id
handle_sched_wakeup(task, t) ==
    /\ attached = "runqlat"
    /\ Event("handle_sched_wakeup")
    /\ LET pid == task.pid IN
       IF pid = 0
       THEN UNCHANGED <<maps, clock, begins>>
       ELSE /\ clock' = t
            /\ maps' = [maps EXCEPT !.rq_start = bpf_map_update_any(@, pid, t)]
            /\ begins' = begins + Began(maps'.rq_start, pid)

handle_sched_switch_rqlat(next, t) ==
    /\ attached = "runqlat"
    /\ Event("handle_sched_switch_rqlat")
    /\ UNCHANGED begins
    /\ LET pid == next.tgid IN
       IF pid = 0 \/ ~bpf_map_lookup_elem(maps.rq_start, pid)
       THEN UNCHANGED <<maps, clock>>
       ELSE LET delta == Sub64(t, maps.rq_start[pid]) IN
            /\ clock' = t
            /\ maps' = [maps EXCEPT
                         !.rq_start = bpf_map_delete_elem(@, pid),
                         !.rqlat_accum = IF Gt(delta, Ceil10s) THEN @
                                         ELSE rqlat_upsert(@, pid, delta)]

\* ----------------------------------------------------------------- offcpu.c
TASK_INTERRUPTIBLE == 1

\* prev->__state & 0xff: TASK_INTERRUPTIBLE, TASK_UNINTERRUPTIBLE
TaskStates == { TASK_INTERRUPTIBLE, 2 }

\* thread-group ids of the tasks of a context switch (0: the idle task;
\* prev_pid > 1, next_pid > 1 are the ones the handler looks at)
SwitchPids == 0 .. 4

offcpu_upsert(acc, pid, delta) ==
    IF bpf_map_lookup_elem(acc, pid)
    THEN MapPut(acc, pid, [acc[pid] EXCEPT !.total_ns = Add64(@, delta),
                                           !.count = Add32(@, One)])
    ELSE bpf_map_update_noexist(acc, pid, [total_ns |-> delta, count |-> One])

\* offcpu_start after the switch-out half of the handler
offcpu_switch_out(start, prev_pid, prev_state, now) ==
    IF prev_pid > 1 /\ prev_state # TASK_INTERRUPTIBLE
    THEN bpf_map_update_any(start, prev_pid, now)
    ELSE start

\* offcpu.c:38-75: the handler on the tables
sched_switch_body(prev_pid, prev_state, next_pid, now) ==
    /\ clock' = now
    /\ LET start1 == offcpu_switch_out(maps.offcpu_start, prev_pid, prev_state, now)
           wrote  == prev_pid > 1 /\ prev_state # TASK_INTERRUPTIBLE
                     /\ bpf_map_lookup_elem(start1, prev_pid)
           found  == next_pid > 1 /\ bpf_map_lookup_elem(start1, next_pid)
                     /\ Gt(start1[next_pid], Zero)
       IN
       /\ begins' = begins + (IF wrote THEN 1 ELSE 0)
       /\ IF ~found
          THEN maps' = [maps EXCEPT !.offcpu_start = start1]
          ELSE LET delta == Sub64(now, start1[next_pid]) IN
               maps' = [maps EXCEPT
                          !.offcpu_start = bpf_map_delete_elem(start1, next_pid),
                          !.offcpu_accum = IF Lt(delta, Ceil30s)
                                           THEN offcpu_upsert(@, next_pid, delta)
                                           ELSE @]

handle_sched_switch(prev_pid, prev_state, next_pid, now) ==
    /\ attached = "offcpu"
    /\ Event("handle_sched_switch")
    /\ sched_switch_body(prev_pid, prev_state, next_pid, now)

\* --------------------------------------------------------- syscalldissect.c
\* ctx->id of raw_syscalls/sys_exit
Syscalls == { 0, 1 }

sc_upsert(acc, key, delta) ==
    IF bpf_map_lookup_elem(acc, key)
    THEN MapPut(acc, key, [acc[key] EXCEPT
                             !.total_ns = Add64(@, delta),
                             !.count = Add32(@, One),
                             !.max_ns = IF Gt(Clamp32(delta), @) THEN Clamp32(delta) ELSE @])
    ELSE bpf_map_update_noexist(acc, key,
            [total_ns |-> delta, count |-> One, max_ns |-> Clamp32(delta)])

handle_sys_enter(pid, t) ==
    /\ attached = "syscalldissect"
    /\ Event("handle_sys_enter")
    /\ IF pid = 0
       THEN UNCHANGED <<maps, clock, begins>>
       ELSE /\ clock' = t
            /\ maps' = [maps EXCEPT !.sc_start = bpf_map_update_any(@, pid, t)]
            /\ begins' = begins + Began(maps'.sc_start, pid)

handle_sys_exit(pid, nr, t) ==
    /\ attached = "syscalldissect"
    /\ Event("handle_sys_exit")
    /\ UNCHANGED begins
    /\ IF pid = 0 \/ ~bpf_map_lookup_elem(maps.sc_start, pid)
       THEN UNCHANGED <<maps, clock>>
       ELSE LET delta == Sub64(t, maps.sc_start[pid])
                key   == <<pid, nr>>
            IN
            /\ clock' = t
            /\ maps' = [maps EXCEPT
                         !.sc_start = bpf_map_delete_elem(@, pid),
                         !.sc_accum = IF Gt(delta, Ceil30s) THEN @
                                      ELSE sc_upsert(@, key, delta)]

\* -------------------------------------------------------------- iolatency.c
HIST_SLOTS == 16

\* __u64 delta / 1000 and v >> 1 on words
Div1000(x) == <<0, x[1] * 10^6 + (x[2] \div 1000), (x[2] % 1000) * 10^6 + (x[3] \div 1000)>>
Shr1(x) == <<x[1] \div 2, (x[2] + (x[1] % 2) * Giga) \div 2, (x[3] + (x[2] % 2) * Giga) \div 2>>

\* (a loop of HIST_SLOTS - 2 iterations)
RECURSIVE log2_loop_short(_, _, _)
log2_loop_short(v, slot, i) ==
    IF i >= HIST_SLOTS - 2 THEN slot
    ELSE CHOOSE r \in { IF Gt(w, One) THEN log2_loop_short(Shr1(w), slot + 1, i + 1)
                                      ELSE log2_loop_short(w, slot, i + 1) : w \in {v} } : TRUE

RECURSIVE log2_loop(_, _, _)
\* (w: the value of v at iteration i)
log2_loop(v, slot, i) ==
    IF i >= HIST_SLOTS - 1 THEN slot
    ELSE CHOOSE r \in { IF Gt(w, One) THEN log2_loop(Shr1(w), slot + 1, i + 1)
                                      ELSE log2_loop(w, slot, i + 1) : w \in {v} } : TRUE

\* the number of times the body of the loop of log2_slot runs
RECURSIVE log2_iterations(_, _)
log2_iterations(v, i) ==
    IF i >= HIST_SLOTS - 1 THEN 0
    ELSE CHOOSE r \in { IF Gt(w, One) THEN 1 + log2_iterations(Shr1(w), i + 1)
                                      ELSE 1 + log2_iterations(w, i + 1) : w \in {v} } : TRUE

\* (a bucketer that halves while the value stays above 0: the bit length)
log2_slot_bits(us) ==
    LET slot == IF us = Zero THEN 0 ELSE log2_loop(us, 0, 0) + 1
    IN  IF slot >= HIST_SLOTS THEN HIST_SLOTS - 1 ELSE slot

log2_slot(us) ==
    LET slot == log2_loop(us, 0, 0)
    IN  IF slot >= HIST_SLOTS THEN HIST_SLOTS - 1 ELSE slot

\* block devices and sectors of the requests
Devs == { 8, 9 }
Sectors == 1 .. 3
\* a request and the process that issues it (0: issued from the idle task)
Requests == { <<s, p>> \in Sectors \X Pids : p = s \/ (s = 1 /\ p = 0) }
\* the requests issued: process 1 also has a request on the second device
Issues == { <<d, r>> \in Devs \X Requests : d = 8 \/ r = <<1, 1>> }

iolat_upsert(acc, pid, delta, dev) ==
    LET slot == log2_slot(Div1000(delta)) % HIST_SLOTS      \* slot & (HIST_SLOTS - 1)
    IN  IF bpf_map_lookup_elem(acc, pid)
        THEN MapPut(acc, pid, [acc[pid] EXCEPT
                                 !.total_ns = Add64(@, delta),
                                 !.count = Add32(@, One),
                                 !.slots[slot] = Add32(@, One),
                                 !.max_ns = IF Gt(delta, @) THEN delta ELSE @])
        ELSE bpf_map_update_noexist(acc, pid,
                [total_ns |-> delta, max_ns |-> delta, count |-> One, dev |-> dev,
                 slots |-> [[i \in 0 .. HIST_SLOTS - 1 |-> Zero] EXCEPT ![slot] = One]])

handle_block_rq_issue(dev, sector, pid, t) ==
    /\ attached = "iolatency"
    /\ Event("handle_block_rq_issue")
    /\ clock' = t
    /\ maps' = [maps EXCEPT !.inflight =
                   bpf_map_update_any(@, <<dev, sector>>, [pid |-> pid, start_ns |-> t])]
    /\ begins' = begins + Began(maps'.inflight, <<dev, sector>>)

\* (a completion that waits for the request to be issued)
handle_block_rq_complete_wait(dev, sector, t) ==
    /\ attached = "iolatency"
    /\ Event("handle_block_rq_complete")
    /\ UNCHANGED begins
    /\ bpf_map_lookup_elem(maps.inflight, <<dev, sector>>)
    /\ LET key == <<dev, sector>>
           start == maps.inflight[key]
           delta == Sub64(t, start.start_ns)
           pid   == start.pid
       IN
       /\ clock' = t
       /\ maps' = [maps EXCEPT
                    !.inflight = bpf_map_delete_elem(@, key),
                    !.iolat_hist = IF delta = Zero \/ pid = 0 THEN @
                                   ELSE iolat_upsert(@, pid, delta, dev)]

handle_block_rq_complete(dev, sector, t) ==
    /\ attached = "iolatency"
    /\ Event("handle_block_rq_complete")
    /\ UNCHANGED begins
    /\ LET key == <<dev, sector>> IN
       IF ~bpf_map_lookup_elem(maps.inflight, key)
       THEN UNCHANGED <<maps, clock>>
       ELSE LET start == maps.inflight[key]
                delta == Sub64(t, start.start_ns)
                pid   == start.pid
            IN
            /\ clock' = t
            /\ maps' = [maps EXCEPT
                         !.inflight = bpf_map_delete_elem(@, key),
                         !.iolat_hist = IF delta = Zero \/ pid = 0 THEN @
                                        ELSE iolat_upsert(@, pid, delta, dev)]

\* ----------------------------------------------------------------- sockio.c
\* a socket: skc_daddr and skc_dport (network byte order)
Socks == { [daddr |-> 10, dport |-> 20480], [daddr |-> 11, dport |-> 47873] }

\* __builtin_bswap16
bswap16(x) == (x % 256) * 256 + (x \div 256)

\* tcp_sendmsg size, tcp_cleanup_rbuf copied (an int)
Sizes == { 0, 100 }
\* copied of tcp_cleanup_rbuf, an int: -1 when nothing was copied
Copied == Sizes \cup { -1 }
\* a tcp_recvmsg call: the calling process and the socket
RecvCalls == { <<p, sk>> \in Pids \X Socks : p = 1 \/ sk.daddr = 10 }

sockio_key(pid, sk) == <<pid, sk.daddr, bswap16(sk.dport)>>

NewSockio == [tx_bytes |-> Zero, rx_bytes |-> Zero, recv_wait_ns |-> Zero,
              recv_count |-> Zero, max_recv_ns |-> Zero]

add_tx(acc, pid, sk, size) ==
    IF pid = 0 THEN acc
    ELSE LET key == sockio_key(pid, sk) IN
         IF bpf_map_lookup_elem(acc, key)
         THEN MapPut(acc, key, [acc[key] EXCEPT !.tx_bytes = Add64(@, size)])
         ELSE bpf_map_update_noexist(acc, key, [NewSockio EXCEPT !.tx_bytes = size])

add_rx(acc, pid, sk, size) ==
    IF pid = 0 THEN acc
    ELSE LET key == sockio_key(pid, sk) IN
         IF bpf_map_lookup_elem(acc, key)
         THEN MapPut(acc, key, [acc[key] EXCEPT !.rx_bytes = Add64(@, size)])
         ELSE bpf_map_update_noexist(acc, key, [NewSockio EXCEPT !.rx_bytes = size])

sockio_recv_upsert(acc, key, delta) ==
    IF bpf_map_lookup_elem(acc, key)
    THEN MapPut(acc, key, [acc[key] EXCEPT
                             !.recv_wait_ns = Add64(@, delta),
                             !.recv_count = Add32(@, One),
                             !.max_recv_ns = IF Gt(Clamp32(delta), @) THEN Clamp32(delta) ELSE @])
    ELSE bpf_map_update_noexist(acc, key,
            [NewSockio EXCEPT !.recv_wait_ns = delta, !.recv_count = One,
                              !.max_recv_ns = Clamp32(delta)])

handle_tcp_sendmsg(pid, sk, size) ==
    /\ attached = "sockio"
    /\ Event("handle_tcp_sendmsg")
    /\ maps' = [maps EXCEPT !.sockio_accum = add_tx(@, pid, sk, Ns(size))]
    /\ UNCHANGED <<clock, begins>>

handle_tcp_cleanup_rbuf(pid, sk, copied) ==
    /\ attached = "sockio"
    /\ Event("handle_tcp_cleanup_rbuf")
    /\ IF copied <= 0
       THEN UNCHANGED maps
       ELSE maps' = [maps EXCEPT !.sockio_accum = add_rx(@, pid, sk, Ns(copied))]
    /\ UNCHANGED <<clock, begins>>

handle_tcp_recvmsg_enter(pid, sk, t) ==
    /\ attached = "sockio"
    /\ Event("handle_tcp_recvmsg_enter")
    /\ IF pid = 0
       THEN UNCHANGED <<maps, clock, begins>>
       ELSE /\ clock' = t
            /\ maps' = [maps EXCEPT !.recv_inflight = bpf_map_update_any(@, pid,
                            [ts |-> t, daddr |-> sk.daddr, dport |-> bswap16(sk.dport)])]
            /\ begins' = begins + Began(maps'.recv_inflight, pid)

handle_tcp_recvmsg_exit(pid, t) ==
    /\ attached = "sockio"
    /\ Event("handle_tcp_recvmsg_exit")
    /\ UNCHANGED begins
    /\ IF pid = 0 \/ ~bpf_map_lookup_elem(maps.recv_inflight, pid)
       THEN UNCHANGED <<maps, clock>>
       ELSE LET rs    == maps.recv_inflight[pid]
                delta == Sub64(t, rs.ts)
                key   == <<pid, rs.daddr, rs.dport>>
            IN
            /\ clock' = t
            /\ maps' = [maps EXCEPT
                         !.recv_inflight = bpf_map_delete_elem(@, pid),
                         !.sockio_accum = IF Gt(delta, Ceil30s) THEN @
                                          ELSE sockio_recv_upsert(@, key, delta)]

\* ------------------------------------------------------------- tcpconnlat.c
TCP_SYN_SENT == 2
TCP_ESTABLISHED == 1

\* struct sock addresses (the pairing key)
SockAddrs == 1 .. 3
\* a socket and the process that connects it (0: connect from the idle task)
Connects == { <<sk, p>> \in SockAddrs \X Pids : p = sk \/ (sk = 1 /\ p = 0) }
\* (oldstate, newstate) of inet_sock_set_state: 7 is TCP_CLOSE
StatePairs == { <<TCP_SYN_SENT, TCP_ESTABLISHED>>, <<TCP_SYN_SENT, 7>>,
                <<7, TCP_ESTABLISHED>> }
\* what bpf_probe_read_kernel leaves in daddr: ctx->daddr, or 0 when the read fails
Daddrs == { 0, 10 }

connlat_upsert(acc, pid, delta, daddr) ==
    IF bpf_map_lookup_elem(acc, pid)
    THEN MapPut(acc, pid, [acc[pid] EXCEPT
                             !.total_ns = Add64(@, delta),
                             !.count = Add32(@, One),
                             !.max_ns = IF Gt(Clamp32(delta), @) THEN Clamp32(delta) ELSE @,
                             !.last_pid = pid,
                             !.daddr = daddr])
    ELSE bpf_map_update_noexist(acc, pid,
            [total_ns |-> delta, count |-> One, max_ns |-> Clamp32(delta),
             last_pid |-> pid, daddr |-> daddr])

\* (a begin that makes room in a full table by evicting another socket's entry)
handle_tcp_v4_connect_evict(sk, pid, t) ==
    /\ attached = "tcpconnlat"
    /\ Event("handle_tcp_v4_connect")
    /\ clock' = t
    /\ IF pid = 0
       THEN UNCHANGED <<maps, begins>>
       ELSE LET m == maps.conn_inflight
                room == IF sk \in DOMAIN m \/ Cardinality(DOMAIN m) < MaxEntries
                        THEN m
                        ELSE bpf_map_delete_elem(m, CHOOSE x \in DOMAIN m : TRUE)
            IN
            /\ maps' = [maps EXCEPT !.conn_inflight =
                           bpf_map_update_any(room, sk, [ts |-> t, pid |-> pid])]
            /\ begins' = begins + Began(maps'.conn_inflight, sk)

handle_tcp_v4_connect(sk, pid, t) ==
    /\ attached = "tcpconnlat"
    /\ Event("handle_tcp_v4_connect")
    /\ clock' = t
    /\ IF pid = 0
       THEN UNCHANGED <<maps, begins>>
       ELSE /\ maps' = [maps EXCEPT !.conn_inflight =
                           bpf_map_update_any(@, sk, [ts |-> t, pid |-> pid])]
            /\ begins' = begins + Began(maps'.conn_inflight, sk)

\* (a handler without the test of the transition)
handle_set_state_any(skaddr, oldstate, newstate, daddr, t) ==
    /\ attached = "tcpconnlat"
    /\ Event("handle_set_state")
    /\ UNCHANGED begins
    /\ IF ~bpf_map_lookup_elem(maps.conn_inflight, skaddr)
       THEN UNCHANGED <<maps, clock>>
       ELSE LET start == maps.conn_inflight[skaddr]
                delta == Sub64(t, start.ts)
            IN
            /\ clock' = t
            /\ maps' = [maps EXCEPT
                         !.conn_inflight = bpf_map_delete_elem(@, skaddr),
                         !.connlat_accum = connlat_upsert(@, start.pid, delta, daddr)]

handle_set_state(skaddr, oldstate, newstate, daddr, t) ==
    /\ attached = "tcpconnlat"
    /\ Event("handle_set_state")
    /\ UNCHANGED begins
    /\ IF oldstate # TCP_SYN_SENT \/ newstate # TCP_ESTABLISHED
          \/ ~bpf_map_lookup_elem(maps.conn_inflight, skaddr)
       THEN UNCHANGED <<maps, clock>>
       ELSE LET start == maps.conn_inflight[skaddr]
                delta == Sub64(t, start.ts)
            IN
            /\ clock' = t
            /\ maps' = [maps EXCEPT
                         !.conn_inflight = bpf_map_delete_elem(@, skaddr),
                         !.connlat_accum = connlat_upsert(@, start.pid, delta, daddr)]

\* --------------------------------------------------------------- kfreeskb.c
\* enum skb_drop_reason: 0 is SKB_DROP_REASON_NOT_SPECIFIED
Reasons == 0 .. 3

\* (a handler that counts every drop, reason 0 too)
handle_kfree_skb_all(reason) ==
    /\ attached = "kfreeskb"
    /\ Event("handle_kfree_skb")
    /\ UNCHANGED <<clock, begins>>
    /\ maps' = [maps EXCEPT !.drop_accum =
            IF bpf_map_lookup_elem(@, reason)
            THEN MapPut(@, reason, [@[reason] EXCEPT !.count = Add64(@, One)])
            ELSE bpf_map_update_noexist(@, reason, [count |-> One])]

handle_kfree_skb(reason) ==
    /\ attached = "kfreeskb"
    /\ Event("handle_kfree_skb")
    /\ UNCHANGED <<clock, begins>>
    /\ IF reason = 0
       THEN UNCHANGED maps
       ELSE maps' = [maps EXCEPT !.drop_accum =
                IF bpf_map_lookup_elem(@, reason)
                THEN MapPut(@, reason, [@[reason] EXCEPT !.count = Add64(@, One)])
                ELSE bpf_map_update_noexist(@, reason, [count |-> One])]

\* ---------------------------------------------------------------- oomkill.c
\* (a table that keeps the latest victim only)
handle_mark_victim_latest(pid, t) ==
    /\ attached = "oomkill"
    /\ Event("handle_mark_victim")
    /\ clock' = t
    /\ UNCHANGED begins
    /\ maps' = [maps EXCEPT !.oom_accum =
            MapPut(EmptyMap, pid, [ts |-> t, total_vm |-> Zero, anon_rss |-> Zero])]

handle_mark_victim(pid, t) ==
    /\ attached = "oomkill"
    /\ Event("handle_mark_victim")
    /\ clock' = t
    /\ UNCHANGED begins
    /\ maps' = [maps EXCEPT !.oom_accum =
            bpf_map_update_any(@, pid, [ts |-> t, total_vm |-> Zero, anon_rss |-> Zero])]

\* ------------------------------------------------------------- cgthrottle.c
\* bpf_get_current_cgroup_id()
Cgroups == 1 .. 3

handle_throttle_cfs_rq(cgid) ==
    /\ attached = "cgthrottle"
    /\ Event("handle_throttle_cfs_rq")
    /\ UNCHANGED <<clock, begins>>
    /\ maps' = [maps EXCEPT !.throttle_accum =
            IF bpf_map_lookup_elem(@, cgid)
            THEN MapPut(@, cgid, [@[cgid] EXCEPT !.count = Add64(@, One)])
            ELSE bpf_map_update_noexist(@, cgid, [count |-> One])]

\* ---------------------------------------------------------------- wbstall.c
\* ctx->nr_pages of writeback_wait
PageCounts == { 3, 5 }

handle_writeback_wait(pid, nr_pages) ==
    /\ attached = "wbstall"
    /\ Event("handle_writeback_wait")
    /\ UNCHANGED <<clock, begins>>
    /\ IF pid = 0
       THEN UNCHANGED maps
       ELSE maps' = [maps EXCEPT !.wb_accum =
                IF bpf_map_lookup_elem(@, pid)
                THEN MapPut(@, pid, [@[pid] EXCEPT !.count = Add64(@, One),
                                                   !.total_pages = Add64(@, nr_pages)])
                ELSE bpf_map_update_noexist(@, pid, [count |-> One, total_pages |-> nr_pages])]

\* ---------------------------------------------------------- netthroughput.c
add_bytes(acc, pid, tx, rx) ==
    IF bpf_map_lookup_elem(acc, pid)
    THEN MapPut(acc, pid, [acc[pid] EXCEPT !.tx_bytes = Add64(@, tx),
                                           !.rx_bytes = Add64(@, rx)])
    ELSE bpf_map_update_noexist(acc, pid, [tx_bytes |-> tx, rx_bytes |-> rx])

\* handle_tcp_sendmsg of netthroughput.c
net_handle_tcp_sendmsg(pid, size) ==
    /\ attached = "netthroughput"
    /\ Event("net_handle_tcp_sendmsg")
    /\ UNCHANGED <<clock, begins>>
    /\ IF pid = 0
       THEN UNCHANGED maps
       ELSE maps' = [maps EXCEPT !.net_accum = add_bytes(@, pid, Ns(size), Zero)]

\* handle_tcp_cleanup_rbuf of netthroughput.c
net_handle_tcp_cleanup_rbuf(pid, copied) ==
    /\ attached = "netthroughput"
    /\ Event("net_handle_tcp_cleanup_rbuf")
    /\ UNCHANGED <<clock, begins>>
    /\ IF pid = 0 \/ copied <= 0
       THEN UNCHANGED maps
       ELSE maps' = [maps EXCEPT !.net_accum = add_bytes(@, pid, Zero, Ns(copied))]

\* ----------------------------------------------------------------- tcprtt.c
\* tp->srtt_us (RTT in units of 1/8 us): 0 .. 7 give srtt 0
SrttUs == { 4, 80, 160, 240 }

\* the connections handle_tcp_rcv_established sees: the socket and the process
\* that is current when the segment arrives
RttEvents == { <<sk, p>> \in Socks \X { 0, 1 } : p = 0 \/ sk.daddr = 10 }

handle_tcp_rcv_established(sk, srtt_us, pid) ==
    /\ attached = "tcprtt"
    /\ Event("handle_tcp_rcv_established")
    /\ UNCHANGED <<clock, begins>>
    /\ LET srtt == Ns(srtt_us \div 8)
           key  == <<sk.daddr, bswap16(sk.dport)>>
       IN
       IF srtt = Zero
       THEN UNCHANGED maps
       ELSE maps' = [maps EXCEPT !.rtt_accum =
                IF bpf_map_lookup_elem(@, key)
                THEN MapPut(@, key, [@[key] EXCEPT
                        !.sum_us = Add64(@, srtt),
                        !.count = Add32(@, One),
                        !.min_us = IF Lt(srtt, @) \/ @ = Zero THEN srtt ELSE @,
                        !.max_us = IF Gt(srtt, @) THEN srtt ELSE @,
                        !.last_pid = pid])
                ELSE bpf_map_update_noexist(@, key,
                        [sum_us |-> srtt, count |-> One, min_us |-> srtt,
                         max_us |-> srtt, last_pid |-> pid])]

\* ------------------------------------------------------------- tcpretrans.c
\* ctx->sport, ctx->dport, ctx->daddr of tcp_retransmit_skb; daddr 0 is what
\* a failed bpf_probe_read_kernel leaves
Segments == { [sport |-> 4000, dport |-> 80, daddr |-> 0],
              [sport |-> 4000, dport |-> 80, daddr |-> 10],
              [sport |-> 4001, dport |-> 443, daddr |-> 11] }

handle_tcp_retransmit(pid, seg) ==
    /\ attached = "tcpretrans"
    /\ Event("handle_tcp_retransmit")
    /\ UNCHANGED <<clock, begins>>
    /\ maps' = [maps EXCEPT !.retrans_accum =
            IF bpf_map_lookup_elem(@, pid)
            THEN MapPut(@, pid, [@[pid] EXCEPT !.count = Add32(@, One),
                                               !.last_sport = seg.sport,
                                               !.last_dport = seg.dport,
                                               !.last_daddr = seg.daddr])
            ELSE bpf_map_update_noexist(@, pid,
                    [count |-> One, last_sport |-> seg.sport,
                     last_dport |-> seg.dport, last_daddr |-> seg.daddr])]

\* --------------------------------------------------------------- tcpreset.c
handle_tcp_send_reset(pid, sk) ==
    /\ attached = "tcpreset"
    /\ Event("handle_tcp_send_reset")
    /\ UNCHANGED <<clock, begins>>
    /\ maps' = [maps EXCEPT !.reset_accum =
            IF bpf_map_lookup_elem(@, pid)
            THEN MapPut(@, pid, [@[pid] EXCEPT !.count = Add64(@, One),
                                               !.last_daddr = sk.daddr,
                                               !.last_dport = sk.dport])
            ELSE bpf_map_update_noexist(@, pid,
                    [count |-> One, last_daddr |-> sk.daddr, last_dport |-> sk.dport])]

\* ---------------------------------------------------------------- modload.c
\* mod->name as the bytes of the string: "loop", "nf_conntrack" and
\* "nf_conntrack_ftp"; the empty string is what a failed read leaves in name
ModNames == { <<>>, <<108, 111, 111, 112>>,
              <<110, 102, 95, 99, 111, 110, 110, 116, 114, 97, 99, 107>>,
              <<110, 102, 95, 99, 111, 110, 110, 116, 114, 97, 99, 107, 95, 102, 116, 112>> }

\* __builtin_memcpy(&key, name, 8) from the zero-filled name[56]
mod_key(name) == [i \in 1 .. 8 |-> IF i <= Len(name) THEN name[i] ELSE 0]

handle_do_init_module(name, t) ==
    /\ attached = "modload"
    /\ Event("handle_do_init_module")
    /\ clock' = t
    /\ UNCHANGED begins
    /\ LET key == mod_key(name) IN
       maps' = [maps EXCEPT !.mod_accum =
            IF bpf_map_lookup_elem(@, key)
            THEN MapPut(@, key, [@[key] EXCEPT !.count = Add64(@, One), !.ts = t])
            ELSE bpf_map_update_noexist(@, key, [count |-> One, ts |-> t, name |-> name])]

\* -------------------------------------------------------------- execsnoop.c
\* what the handler reads of the current task at sched_process_exec; ppid 0
\* and an empty filename are what failed reads leave
Execs == { [ppid |-> 0, uid |-> 0, comm |-> "sh", filename |-> ""],
           [ppid |-> 1, uid |-> 0, comm |-> "sh", filename |-> "/bin/sh"],
           [ppid |-> 2, uid |-> 1000, comm |-> "ls", filename |-> "/bin/ls"] }

handle_sched_process_exec(pid, e, t) ==
    /\ attached = "execsnoop"
    /\ Event("handle_sched_process_exec")
    /\ UNCHANGED begins
    /\ IF pid = 0
       THEN UNCHANGED <<maps, clock>>
       ELSE /\ clock' = t
            /\ maps' = [maps EXCEPT !.exec_accum =
                    IF bpf_map_lookup_elem(@, pid)
                    THEN MapPut(@, pid, [@[pid] EXCEPT !.count = Add64(@, One),
                                                       !.ts = t,
                                                       !.ppid = e.ppid,
                                                       !.uid = e.uid,
                                                       !.comm = e.comm,
                                                       !.filename = e.filename])
                    ELSE bpf_map_update_noexist(@, pid,
                            [count |-> One, ts |-> t, ppid |-> e.ppid, uid |-> e.uid,
                             comm |-> e.comm, filename |-> e.filename])]

\* ----------------------------------------------------------- ptracedetect.c
PTRACE_POKETEXT == 4
PTRACE_POKEDATA == 5
PTRACE_SETREGS == 13
PTRACE_ATTACH == 16
PTRACE_SEIZE == 16902

\* ctx->request: 0 is PTRACE_TRACEME
PtraceRequests == { 0, PTRACE_POKETEXT, PTRACE_ATTACH }
\* the tracer (current) and its comm
Tracers == { [pid |-> 0, comm |-> "swapper"], [pid |-> 1, comm |-> "gdb"],
             [pid |-> 1, comm |-> "inject"] }
\* ctx->pid
Targets == { 2, 3 }

handle_sys_enter_ptrace(req, tracer, target_pid, t) ==
    /\ attached = "ptracedetect"
    /\ Event("handle_sys_enter_ptrace")
    /\ UNCHANGED begins
    /\ IF \/ req \notin { PTRACE_ATTACH, PTRACE_SEIZE, PTRACE_POKETEXT,
                          PTRACE_POKEDATA, PTRACE_SETREGS }
          \/ tracer.pid = 0
       THEN UNCHANGED <<maps, clock>>
       ELSE LET key == <<tracer.pid, target_pid>> IN
            /\ clock' = t
            /\ maps' = [maps EXCEPT !.ptrace_accum =
                    IF bpf_map_lookup_elem(@, key)
                    THEN MapPut(@, key, [@[key] EXCEPT !.count = Add64(@, One),
                                                       !.ts = t,
                                                       !.request = req,
                                                       !.tracer_comm = tracer.comm])
                    ELSE bpf_map_update_noexist(@, key,
                            [count |-> One, ts |-> t, request |-> req,
                             tracer_comm |-> tracer.comm])]

\* -------------------------------------------------------------- sockstate.c
\* (oldstate, newstate) of inet_sock_set_state: 7 is TCP_CLOSE, 8 TCP_CLOSE_WAIT
Transitions == { <<TCP_SYN_SENT, TCP_ESTABLISHED>>, <<TCP_ESTABLISHED, 8>>, <<8, 7>> }

handle_sock_set_state(oldstate, newstate) ==
    /\ attached = "sockstate"
    /\ Event("handle_sock_set_state")
    /\ UNCHANGED <<clock, begins>>
    /\ LET key == <<oldstate % 65536, newstate % 65536>> IN       \* (__u16)
       maps' = [maps EXCEPT !.state_accum =
            IF bpf_map_lookup_elem(@, key)
            THEN MapPut(@, key, [@[key] EXCEPT !.count = Add64(@, One)])
            ELSE bpf_map_update_noexist(@, key, [count |-> One])]

\* -------------------------------------------------------------- swapevict.c
handle_swap_readpage(pid) ==
    /\ attached = "swapevict"
    /\ Event("handle_swap_readpage")
    /\ UNCHANGED <<clock, begins>>
    /\ IF pid = 0
       THEN UNCHANGED maps
       ELSE maps' = [maps EXCEPT !.swap_accum =
                IF bpf_map_lookup_elem(@, pid)
                THEN MapPut(@, pid, [@[pid] EXCEPT !.read_pages = Add64(@, One)])
                ELSE bpf_map_update_noexist(@, pid, [read_pages |-> One, write_pages |-> Zero])]

handle_swap_writepage(pid) ==
    /\ attached = "swapevict"
    /\ Event("handle_swap_writepage")
    /\ UNCHANGED <<clock, begins>>
    /\ IF pid = 0
       THEN UNCHANGED maps
       ELSE maps' = [maps EXCEPT !.swap_accum =
                IF bpf_map_lookup_elem(@, pid)
                THEN MapPut(@, pid, [@[pid] EXCEPT !.write_pages = Add64(@, One)])
                ELSE bpf_map_update_noexist(@, pid, [read_pages |-> Zero, write_pages |-> One])]

\* ------------------------------------------------------------ specification
Objects == { "directreclaim", "lockwait", "pgfault", "runqlat", "offcpu",
             "syscalldissect", "iolatency", "sockio", "tcpconnlat",
             "kfreeskb", "oomkill", "cgthrottle", "wbstall", "netthroughput",
             "tcprtt", "tcpretrans", "tcpreset", "modload", "execsnoop",
             "ptracedetect", "sockstate", "swapevict" }

MapNames == { "reclaim_start", "reclaim_accum", "futex_start", "futex_accum",
              "pgfault_start", "pgfault_accum", "rq_start", "rqlat_accum",
              "offcpu_start", "offcpu_accum", "sc_start", "sc_accum",
              "inflight", "iolat_hist", "sockio_accum", "recv_inflight",
              "conn_inflight", "connlat_accum", "drop_accum", "oom_accum",
              "throttle_accum", "wb_accum", "net_accum", "rtt_accum",
              "retrans_accum", "reset_accum", "mod_accum", "exec_accum",
              "ptrace_accum", "state_accum", "swap_accum" }

CPUs == { 1, 2 }
\* the processes of the SMP behaviours
SmpPids == 0 .. 2

\* bpf_ktime_get_ns() never goes back
Now == { t \in Times : Le(clock, t) }

Init ==
    /\ attached \in Objects
    /\ maps = [n \in MapNames |-> EmptyMap]
    /\ clock = Zero
    /\ events = 0
    /\ begins = 0
    /\ last = "none"
    /\ cpus = [c \in CPUs |-> Idle]

Next ==
    \/ \E pid \in Pids, t \in Now : handle_reclaim_begin(pid, t)
    \/ \E pid \in Pids, t \in Now : handle_reclaim_end(pid, t)
    \/ \E pid \in Pids, op \in FutexOps, t \in Now : handle_futex_enter(pid, op, t)
    \/ \E pid \in Pids, t \in Now : handle_futex_exit(pid, t)
    \/ \E pid \in Pids, t \in Now : handle_fault_enter(pid, t)
    \/ \E pid \in Pids, m \in {0, 1}, t \in Now : handle_fault_exit(pid, m, t)
    \/ \E task \in Tasks, t \in Now : handle_sched_wakeup(task, t)
    \/ \E task \in Tasks, t \in Now : handle_sched_switch_rqlat(task, t)
    \/ \E p \in SwitchPids, st \in TaskStates, n \in SwitchPids, t \in Now :
          handle_sched_switch(p, st, n, t)
    \/ \E pid \in Pids, t \in Now : handle_sys_enter(pid, t)
    \/ \E pid \in Pids, nr \in Syscalls, t \in Now : handle_sys_exit(pid, nr, t)
    \/ \E i \in Issues, t \in Now : handle_block_rq_issue(i[1], i[2][1], i[2][2], t)
    \/ \E d \in Devs, s \in Sectors, t \in Now : handle_block_rq_complete(d, s, t)
    \/ \E pid \in {0, 1}, sk \in Socks, sz \in Sizes \ {0} : handle_tcp_sendmsg(pid, sk, sz)
    \/ \E pid \in {0, 1}, sk \in Socks, sz \in Copied : handle_tcp_cleanup_rbuf(pid, sk, sz)
    \/ \E c \in RecvCalls, t \in Now : handle_tcp_recvmsg_enter(c[1], c[2], t)
    \/ \E pid \in Pids, t \in Now : handle_tcp_recvmsg_exit(pid, t)
    \/ \E c \in Connects, t \in Now : handle_tcp_v4_connect(c[1], c[2], t)
    \/ \E sk \in SockAddrs, sp \in StatePairs, d \in Daddrs, t \in Now :
          handle_set_state(sk, sp[1], sp[2], d, t)
    \/ \E r \in Reasons : handle_kfree_skb(r)
    \/ \E pid \in Pids, t \in Now : handle_mark_victim(pid, t)
    \/ \E cg \in Cgroups : handle_throttle_cfs_rq(cg)
    \/ \E pid \in Pids, n \in PageCounts : handle_writeback_wait(pid, Ns(n))
    \/ \E pid \in Pids, sz \in Sizes : net_handle_tcp_sendmsg(pid, sz)
    \/ \E pid \in Pids, sz \in Copied : net_handle_tcp_cleanup_rbuf(pid, sz)
    \/ \E e \in RttEvents, r \in SrttUs : handle_tcp_rcv_established(e[1], r, e[2])
    \/ \E pid \in Pids, seg \in Segments : handle_tcp_retransmit(pid, seg)
    \/ \E pid \in Pids, sk \in Socks : handle_tcp_send_reset(pid, sk)
    \/ \E name \in ModNames, t \in Now : handle_do_init_module(name, t)
    \/ \E pid \in Pids, e \in Execs, t \in Now : handle_sched_process_exec(pid, e, t)
    \/ \E req \in PtraceRequests, tr \in Tracers, tg \in Targets, t \in Now :
          handle_sys_enter_ptrace(req, tr, tg, t)
    \/ \E tr \in Transitions : handle_sock_set_state(tr[1], tr[2])
    \/ \E pid \in Pids : handle_swap_readpage(pid)
    \/ \E pid \in Pids : handle_swap_writepage(pid)

Spec == Init /\ [][Next]_vars

\* ------------------------------------------------------------ SMP behaviours
(***************************************************************************)
(* Handlers run on several CPUs at once.  A step is one access to a map    *)
(* (a helper call, an atomic add, a load or a store through a value        *)
(* pointer); what a CPU holds between steps are the handler's locals.  A   *)
(* handler whose only shared access is one bpf_map_update_elem is one      *)
(* step.  After its last access an invocation is at "ret" (return 0).      *)
(***************************************************************************)
Call(c) ==
    /\ cpus[c].pc = "idle"
    /\ events < MaxEvents
    /\ events' = events + 1

Goto(c, frame) == cpus' = [cpus EXCEPT ![c] = frame]

\* return 0
handler_return(c) ==
    /\ cpus[c].pc = "ret"
    /\ Goto(c, Idle)
    /\ UNCHANGED <<attached, maps, clock, events, begins, last>>

\* values a map holds
Values(m) == { m[k] : k \in DOMAIN m }

\* What *p reads when p came from a lookup of key k that saw the value seen: the
\* element p points to, or, once that element was deleted or replaced, whatever
\* the map wrote into the recycled (preallocated) element.
Deref(m, k, seen) ==
    IF k \in DOMAIN m /\ m[k] = seen THEN { seen } ELSE { seen } \cup Values(m)

\* CPU c, about to insert, races with the other CPU: that one missed the same
\* key in the same handler and has not inserted yet, or inserted while c was
\* already past its own lookup
Racing(c) ==
    \E o \in CPUs \ {c} :
        \/ /\ cpus[o].pc = "insert"
           /\ cpus[o].h = cpus[c].h /\ cpus[o].key = cpus[c].key
        \/ /\ cpus[o].pc = "ret" /\ cpus[o].path = "insert"
           /\ cpus[o].h = cpus[c].h /\ cpus[o].key = cpus[c].key
           /\ cpus[o].raced

\* syscalldissect.c:45-55, one step
smp_sys_enter(c, pid, t) ==
    /\ attached = "syscalldissect"
    /\ Call(c)
    /\ last' = "handle_sys_enter"
    /\ IF pid = 0
       THEN UNCHANGED <<maps, clock, begins>>
       ELSE /\ clock' = t
            /\ maps' = [maps EXCEPT !.sc_start = bpf_map_update_any(@, pid, t)]
            /\ begins' = begins + Began(maps'.sc_start, pid)
    /\ UNCHANGED <<attached, cpus>>

\* syscalldissect.c:60-66
sys_exit_lookup(c, pid, nr) ==
    /\ attached = "syscalldissect"
    /\ Call(c)
    /\ last' = "handle_sys_exit"
    /\ IF pid = 0 \/ ~bpf_map_lookup_elem(maps.sc_start, pid)
       THEN Goto(c, [pc |-> "ret", h |-> "handle_sys_exit", path |-> "none"])
       ELSE Goto(c, [pc |-> "delta", h |-> "handle_sys_exit", pid |-> pid, nr |-> nr,
                     tsp |-> maps.sc_start[pid]])
    /\ UNCHANGED <<attached, maps, clock, begins>>

\* syscalldissect.c:68
sys_exit_delta(c, t, v) ==
    /\ cpus[c].pc = "delta" /\ cpus[c].h = "handle_sys_exit"
    /\ v \in Deref(maps.sc_start, cpus[c].pid, cpus[c].tsp)
    /\ clock' = t
    /\ Goto(c, [pc |-> "delete", h |-> "handle_sys_exit", pid |-> cpus[c].pid,
                nr |-> cpus[c].nr, delta |-> Sub64(t, v)])
    /\ UNCHANGED <<attached, maps, events, begins, last>>

\* syscalldissect.c:69-73
sys_exit_delete(c) ==
    /\ cpus[c].pc = "delete" /\ cpus[c].h = "handle_sys_exit"
    /\ maps' = [maps EXCEPT !.sc_start = bpf_map_delete_elem(@, cpus[c].pid)]
    /\ IF Gt(cpus[c].delta, Ceil30s)
       THEN Goto(c, [pc |-> "ret", h |-> "handle_sys_exit", path |-> "stale"])
       ELSE Goto(c, [cpus[c] EXCEPT !.pc = "acc_lookup"])
    /\ UNCHANGED <<attached, clock, events, begins, last>>

\* syscalldissect.c:75-79
sys_exit_acc_lookup(c) ==
    /\ cpus[c].pc = "acc_lookup" /\ cpus[c].h = "handle_sys_exit"
    /\ LET key == <<cpus[c].pid, cpus[c].nr>> IN
       Goto(c, [pc |-> IF bpf_map_lookup_elem(maps.sc_accum, key) THEN "add_total" ELSE "insert",
                h |-> "handle_sys_exit", key |-> key, delta |-> cpus[c].delta])
    /\ UNCHANGED <<attached, maps, clock, events, begins, last>>

\* syscalldissect.c:80
sys_exit_add_total(c) ==
    /\ cpus[c].pc = "add_total" /\ cpus[c].h = "handle_sys_exit"
    /\ maps' = [maps EXCEPT !.sc_accum[cpus[c].key].total_ns = Add64(@, cpus[c].delta)]
    /\ Goto(c, [cpus[c] EXCEPT !.pc = "add_count"])
    /\ UNCHANGED <<attached, clock, events, begins, last>>

\* syscalldissect.c:81
sys_exit_add_count(c) ==
    /\ cpus[c].pc = "add_count" /\ cpus[c].h = "handle_sys_exit"
    /\ maps' = [maps EXCEPT !.sc_accum[cpus[c].key].count = Add32(@, One)]
    /\ Goto(c, [cpus[c] EXCEPT !.pc = "max_load"])
    /\ UNCHANGED <<attached, clock, events, begins, last>>

\* syscalldissect.c:83-84, the load of val->max_ns and the comparison
sys_exit_max_load(c) ==
    /\ cpus[c].pc = "max_load" /\ cpus[c].h = "handle_sys_exit"
    /\ IF Gt(Clamp32(cpus[c].delta), maps.sc_accum[cpus[c].key].max_ns)
       THEN Goto(c, [pc |-> "max_store", h |-> "handle_sys_exit", key |-> cpus[c].key,
                     delta |-> cpus[c].delta, old |-> maps.sc_accum[cpus[c].key].max_ns])
       ELSE Goto(c, [pc |-> "ret", h |-> "handle_sys_exit", path |-> "merge",
                     key |-> cpus[c].key, delta |-> cpus[c].delta])
    /\ UNCHANGED <<attached, maps, clock, events, begins, last>>

\* syscalldissect.c:85
sys_exit_max_store(c) ==
    /\ cpus[c].pc = "max_store" /\ cpus[c].h = "handle_sys_exit"
    /\ maps' = [maps EXCEPT !.sc_accum[cpus[c].key].max_ns = Clamp32(cpus[c].delta)]
    /\ Goto(c, [pc |-> "ret", h |-> "handle_sys_exit", path |-> "merge",
                key |-> cpus[c].key, delta |-> cpus[c].delta])
    /\ UNCHANGED <<attached, clock, events, begins, last>>

\* syscalldissect.c:87-93
sys_exit_insert(c) ==
    /\ cpus[c].pc = "insert" /\ cpus[c].h = "handle_sys_exit"
    /\ maps' = [maps EXCEPT !.sc_accum = bpf_map_update_noexist(@, cpus[c].key,
                    [total_ns |-> cpus[c].delta, count |-> One,
                     max_ns |-> Clamp32(cpus[c].delta)])]
    /\ Goto(c, [pc |-> "ret", h |-> "handle_sys_exit", path |-> "insert",
                key |-> cpus[c].key, delta |-> cpus[c].delta, raced |-> Racing(c)])
    /\ UNCHANGED <<attached, clock, events, begins, last>>

\* cgthrottle.c:22-24
throttle_lookup(c, cgid) ==
    /\ attached = "cgthrottle"
    /\ Call(c)
    /\ last' = "handle_throttle_cfs_rq"
    /\ Goto(c, [pc |-> IF bpf_map_lookup_elem(maps.throttle_accum, cgid) THEN "add" ELSE "insert",
                h |-> "handle_throttle_cfs_rq", key |-> cgid])
    /\ UNCHANGED <<attached, maps, clock, begins>>

\* cgthrottle.c:26
throttle_add(c) ==
    /\ cpus[c].pc = "add" /\ cpus[c].h = "handle_throttle_cfs_rq"
    /\ maps' = [maps EXCEPT !.throttle_accum[cpus[c].key].count = Add64(@, One)]
    /\ Goto(c, [pc |-> "ret", h |-> "handle_throttle_cfs_rq", path |-> "merge",
                key |-> cpus[c].key])
    /\ UNCHANGED <<attached, clock, events, begins, last>>

\* (an insert that, refused because the key exists, adds to the record it finds)
throttle_insert_retry(c) ==
    /\ cpus[c].pc = "insert" /\ cpus[c].h = "handle_throttle_cfs_rq"
    /\ maps' = [maps EXCEPT !.throttle_accum =
                    IF cpus[c].key \in DOMAIN @
                    THEN [@ EXCEPT ![cpus[c].key].count = Add64(@, One)]
                    ELSE bpf_map_update_noexist(@, cpus[c].key, [count |-> One])]
    /\ Goto(c, [pc |-> "ret", h |-> "handle_throttle_cfs_rq", path |-> "insert",
                key |-> cpus[c].key, raced |-> Racing(c)])
    /\ UNCHANGED <<attached, clock, events, begins, last>>

\* cgthrottle.c:28-29
throttle_insert(c) ==
    /\ cpus[c].pc = "insert" /\ cpus[c].h = "handle_throttle_cfs_rq"
    /\ maps' = [maps EXCEPT !.throttle_accum =
                    bpf_map_update_noexist(@, cpus[c].key, [count |-> One])]
    /\ Goto(c, [pc |-> "ret", h |-> "handle_throttle_cfs_rq", path |-> "insert",
                key |-> cpus[c].key, raced |-> Racing(c)])
    /\ UNCHANGED <<attached, clock, events, begins, last>>

\* wbstall.c:31-37; seen is the record val points to as the lookup returns
wb_lookup(c, pid, nr_pages) ==
    /\ attached = "wbstall"
    /\ Call(c)
    /\ last' = "handle_writeback_wait"
    /\ IF pid = 0
       THEN Goto(c, [pc |-> "ret", h |-> "handle_writeback_wait", path |-> "none"])
       ELSE IF bpf_map_lookup_elem(maps.wb_accum, pid)
       THEN Goto(c, [pc |-> "add_count", h |-> "handle_writeback_wait", key |-> pid,
                     nr_pages |-> nr_pages, seen |-> maps.wb_accum[pid]])
       ELSE Goto(c, [pc |-> "insert", h |-> "handle_writeback_wait", key |-> pid,
                     nr_pages |-> nr_pages])
    /\ UNCHANGED <<attached, maps, clock, begins>>

\* (an increment that is a load at the lookup and a later store of the sum)
wb_add_count_stored(c) ==
    /\ cpus[c].pc = "add_count" /\ cpus[c].h = "handle_writeback_wait"
    /\ maps' = [maps EXCEPT !.wb_accum[cpus[c].key].count = Add64(cpus[c].seen.count, One)]
    /\ Goto(c, [cpus[c] EXCEPT !.pc = "add_pages"])
    /\ UNCHANGED <<attached, clock, events, begins, last>>

\* wbstall.c:39
wb_add_count(c) ==
    /\ cpus[c].pc = "add_count" /\ cpus[c].h = "handle_writeback_wait"
    /\ maps' = [maps EXCEPT !.wb_accum[cpus[c].key].count = Add64(@, One)]
    /\ Goto(c, [cpus[c] EXCEPT !.pc = "add_pages"])
    /\ UNCHANGED <<attached, clock, events, begins, last>>

\* wbstall.c:40
wb_add_pages(c) ==
    /\ cpus[c].pc = "add_pages" /\ cpus[c].h = "handle_writeback_wait"
    /\ maps' = [maps EXCEPT !.wb_accum[cpus[c].key].total_pages = Add64(@, cpus[c].nr_pages)]
    /\ Goto(c, [pc |-> "ret", h |-> "handle_writeback_wait", path |-> "merge",
                key |-> cpus[c].key, nr_pages |-> cpus[c].nr_pages, seen |-> cpus[c].seen])
    /\ UNCHANGED <<attached, clock, events, begins, last>>

\* (an insert into a map that grows without limit)
wb_insert_grow(c) ==
    /\ cpus[c].pc = "insert" /\ cpus[c].h = "handle_writeback_wait"
    /\ maps' = [maps EXCEPT !.wb_accum = MapPut(@, cpus[c].key,
                    [count |-> One, total_pages |-> cpus[c].nr_pages])]
    /\ Goto(c, [pc |-> "ret", h |-> "handle_writeback_wait", path |-> "insert",
                key |-> cpus[c].key, nr_pages |-> cpus[c].nr_pages, raced |-> Racing(c)])
    /\ UNCHANGED <<attached, clock, events, begins, last>>

\* wbstall.c:42-43
wb_insert(c) ==
    /\ cpus[c].pc = "insert" /\ cpus[c].h = "handle_writeback_wait"
    /\ maps' = [maps EXCEPT !.wb_accum = bpf_map_update_noexist(@, cpus[c].key,
                    [count |-> One, total_pages |-> cpus[c].nr_pages])]
    /\ Goto(c, [pc |-> "ret", h |-> "handle_writeback_wait", path |-> "insert",
                key |-> cpus[c].key, nr_pages |-> cpus[c].nr_pages, raced |-> Racing(c)])
    /\ UNCHANGED <<attached, clock, events, begins, last>>

\* tcprtt.c:34-48
rtt_lookup(c, sk, srtt_us, pid) ==
    /\ attached = "tcprtt"
    /\ Call(c)
    /\ last' = "handle_tcp_rcv_established"
    /\ LET srtt == Ns(srtt_us \div 8)
           key  == <<sk.daddr, bswap16(sk.dport)>>
       IN
       IF srtt = Zero
       THEN Goto(c, [pc |-> "ret", h |-> "handle_tcp_rcv_established", path |-> "none"])
       ELSE Goto(c, [pc |-> IF bpf_map_lookup_elem(maps.rtt_accum, key)
                            THEN "add_sum" ELSE "insert",
                     h |-> "handle_tcp_rcv_established", key |-> key, srtt |-> srtt,
                     pid |-> pid])
    /\ UNCHANGED <<attached, maps, clock, begins>>

\* tcprtt.c:50
rtt_add_sum(c) ==
    /\ cpus[c].pc = "add_sum" /\ cpus[c].h = "handle_tcp_rcv_established"
    /\ maps' = [maps EXCEPT !.rtt_accum[cpus[c].key].sum_us = Add64(@, cpus[c].srtt)]
    /\ Goto(c, [cpus[c] EXCEPT !.pc = "add_count"])
    /\ UNCHANGED <<attached, clock, events, begins, last>>

\* tcprtt.c:51
rtt_add_count(c) ==
    /\ cpus[c].pc = "add_count" /\ cpus[c].h = "handle_tcp_rcv_established"
    /\ maps' = [maps EXCEPT !.rtt_accum[cpus[c].key].count = Add32(@, One)]
    /\ Goto(c, [cpus[c] EXCEPT !.pc = "min"])
    /\ UNCHANGED <<attached, clock, events, begins, last>>

\* (a load that leads to the store whatever the comparison says)
rtt_min_load_always(c) ==
    /\ cpus[c].pc = "min" /\ cpus[c].h = "handle_tcp_rcv_established"
    /\ Goto(c, [cpus[c] EXCEPT !.pc = "min_store"])
    /\ UNCHANGED <<attached, maps, clock, events, begins, last>>

\* tcprtt.c:52, the load of val->min_us and the comparison
rtt_min_load(c) ==
    /\ cpus[c].pc = "min" /\ cpus[c].h = "handle_tcp_rcv_established"
    /\ LET min_us == maps.rtt_accum[cpus[c].key].min_us IN
       Goto(c, [cpus[c] EXCEPT !.pc = IF Lt(cpus[c].srtt, min_us) \/ min_us = Zero
                                      THEN "min_store" ELSE "max_load"])
    /\ UNCHANGED <<attached, maps, clock, events, begins, last>>

\* tcprtt.c:53
rtt_min_store(c) ==
    /\ cpus[c].pc = "min_store" /\ cpus[c].h = "handle_tcp_rcv_established"
    /\ maps' = [maps EXCEPT !.rtt_accum[cpus[c].key].min_us = cpus[c].srtt]
    /\ Goto(c, [cpus[c] EXCEPT !.pc = "max_load"])
    /\ UNCHANGED <<attached, clock, events, begins, last>>

\* (a load that leads to the store whatever the comparison says)
rtt_max_load_always(c) ==
    /\ cpus[c].pc = "max_load" /\ cpus[c].h = "handle_tcp_rcv_established"
    /\ LET old == maps.rtt_accum[cpus[c].key].max_us IN
       Goto(c, [pc |-> "max_store",
                h |-> "handle_tcp_rcv_established", key |-> cpus[c].key,
                srtt |-> cpus[c].srtt, pid |-> cpus[c].pid, old |-> old])
    /\ UNCHANGED <<attached, maps, clock, events, begins, last>>

\* tcprtt.c:54, the load of val->max_us (old) and the comparison
rtt_max_load(c) ==
    /\ cpus[c].pc = "max_load" /\ cpus[c].h = "handle_tcp_rcv_established"
    /\ LET old == maps.rtt_accum[cpus[c].key].max_us IN
       Goto(c, [pc |-> IF Gt(cpus[c].srtt, old) THEN "max_store" ELSE "pid_store",
                h |-> "handle_tcp_rcv_established", key |-> cpus[c].key,
                srtt |-> cpus[c].srtt, pid |-> cpus[c].pid, old |-> old])
    /\ UNCHANGED <<attached, maps, clock, events, begins, last>>

\* (a store that keeps a larger value written since the load: a compare-and-swap
\* loop)
rtt_max_store_cas(c) ==
    /\ cpus[c].pc = "max_store" /\ cpus[c].h = "handle_tcp_rcv_established"
    /\ maps' = [maps EXCEPT !.rtt_accum[cpus[c].key].max_us =
                    IF Gt(cpus[c].srtt, @) THEN cpus[c].srtt ELSE @]
    /\ Goto(c, [cpus[c] EXCEPT !.pc = "pid_store"])
    /\ UNCHANGED <<attached, clock, events, begins, last>>

\* tcprtt.c:55
rtt_max_store(c) ==
    /\ cpus[c].pc = "max_store" /\ cpus[c].h = "handle_tcp_rcv_established"
    /\ maps' = [maps EXCEPT !.rtt_accum[cpus[c].key].max_us = cpus[c].srtt]
    /\ Goto(c, [cpus[c] EXCEPT !.pc = "pid_store"])
    /\ UNCHANGED <<attached, clock, events, begins, last>>

\* tcprtt.c:56
rtt_pid_store(c) ==
    /\ cpus[c].pc = "pid_store" /\ cpus[c].h = "handle_tcp_rcv_established"
    /\ maps' = [maps EXCEPT !.rtt_accum[cpus[c].key].last_pid = cpus[c].pid]
    /\ Goto(c, [pc |-> "ret", h |-> "handle_tcp_rcv_established", path |-> "merge",
                key |-> cpus[c].key, srtt |-> cpus[c].srtt])
    /\ UNCHANGED <<attached, clock, events, begins, last>>

\* tcprtt.c:58-65
rtt_insert(c) ==
    /\ cpus[c].pc = "insert" /\ cpus[c].h = "handle_tcp_rcv_established"
    /\ maps' = [maps EXCEPT !.rtt_accum = bpf_map_update_noexist(@, cpus[c].key,
                    [sum_us |-> cpus[c].srtt, count |-> One, min_us |-> cpus[c].srtt,
                     max_us |-> cpus[c].srtt, last_pid |-> cpus[c].pid])]
    /\ Goto(c, [pc |-> "ret", h |-> "handle_tcp_rcv_established", path |-> "insert",
                key |-> cpus[c].key, srtt |-> cpus[c].srtt, pid |-> cpus[c].pid,
                raced |-> Racing(c)])
    /\ UNCHANGED <<attached, clock, events, begins, last>>

\* the segments of the SMP behaviours: those of one connection
SmpRtt == { e \in RttEvents : e[1].daddr = 10 }

InitSMP == Init /\ attached \in { "syscalldissect", "cgthrottle", "wbstall", "tcprtt" }

NextSMP ==
    \/ \E c \in CPUs, pid \in SmpPids, t \in Now : smp_sys_enter(c, pid, t)
    \/ \E c \in CPUs, pid \in SmpPids, nr \in Syscalls : sys_exit_lookup(c, pid, nr)
    \/ \E c \in CPUs, t \in Now, v \in Times : sys_exit_delta(c, t, v)
    \/ \E c \in CPUs : sys_exit_delete(c)
    \/ \E c \in CPUs : sys_exit_acc_lookup(c)
    \/ \E c \in CPUs : sys_exit_add_total(c)
    \/ \E c \in CPUs : sys_exit_add_count(c)
    \/ \E c \in CPUs : sys_exit_max_load(c)
    \/ \E c \in CPUs : sys_exit_max_store(c)
    \/ \E c \in CPUs : sys_exit_insert(c)
    \/ \E c \in CPUs, cg \in Cgroups : throttle_lookup(c, cg)
    \/ \E c \in CPUs : throttle_add(c)
    \/ \E c \in CPUs : throttle_insert(c)
    \/ \E c \in CPUs, pid \in SmpPids, n \in PageCounts : wb_lookup(c, pid, Ns(n))
    \/ \E c \in CPUs : wb_add_count(c)
    \/ \E c \in CPUs : wb_add_pages(c)
    \/ \E c \in CPUs : wb_insert(c)
    \/ \E c \in CPUs, e \in SmpRtt, r \in SrttUs : rtt_lookup(c, e[1], r, e[2])
    \/ \E c \in CPUs : rtt_add_sum(c)
    \/ \E c \in CPUs : rtt_add_count(c)
    \/ \E c \in CPUs : rtt_min_load(c)
    \/ \E c \in CPUs : rtt_min_store(c)
    \/ \E c \in CPUs : rtt_max_load(c)
    \/ \E c \in CPUs : rtt_max_store(c)
    \/ \E c \in CPUs : rtt_pid_store(c)
    \/ \E c \in CPUs : rtt_insert(c)
    \/ \E c \in CPUs : handler_return(c)

SpecSMP == InitSMP /\ [][NextSMP]_vars

\* ----------------------------------------------------- long-running tables
(***************************************************************************)
(* The accumulation maps live until the reader resets them; their 32-bit   *)
(* counters are then near 2^32.  These behaviours start from retrans_accum *)
(* or reclaim_accum holding one record that has counted 2^32 - 2 or        *)
(* 2^32 - 1 samples (retransmissions of 1000 ns stalls), and run the       *)
(* handlers of the object.                                                 *)
(***************************************************************************)
LongCounts == { SubRaw(U32_MAX, One), U32_MAX }

\* sum of n stalls of 1000 ns, n < 2^32
Stalls(n) == <<n[1] * 1000 + (n[2] \div 10^6), (n[2] % 10^6) * 1000 + (n[3] \div 10^6),
               (n[3] % 10^6) * 1000>>

InitUptime ==
    /\ attached \in { "tcpretrans", "directreclaim" }
    /\ \E pid \in { 1, 2 }, n \in LongCounts, seg \in Segments :
          maps = [m \in MapNames |->
                    IF attached = "tcpretrans" /\ m = "retrans_accum"
                    THEN MapPut(EmptyMap, pid - 1,
                                [count |-> n, last_sport |-> seg.sport,
                                 last_dport |-> seg.dport, last_daddr |-> seg.daddr])
                    ELSE IF attached = "directreclaim" /\ m = "reclaim_accum"
                    THEN MapPut(EmptyMap, pid, [stall_ns |-> Stalls(n), count |-> n])
                    ELSE EmptyMap]
    /\ clock = Zero
    /\ events = 0
    /\ begins = 0
    /\ last = "none"
    /\ cpus = [c \in CPUs |-> Idle]

NextUptime ==
    \/ \E pid \in Pids, seg \in Segments : handle_tcp_retransmit(pid, seg)
    \/ \E pid \in Pids, t \in Now : handle_reclaim_begin(pid, t)
    \/ \E pid \in Pids, t \in Now : handle_reclaim_end(pid, t)

SpecUptime == InitUptime /\ [][NextUptime]_vars

\* ------------------------------------------------------- the bucketer alone
\* log2_slot applied to durations around every bucket boundary, around 2^32
\* and to the largest us = delta / 1000 of a 64-bit delta
U64_MAX == <<18, 446744073, 709551615>>
SlotInputs ==
    { Zero, U32_MAX, Pow32, Div1000(U64_MAX) }
        \cup { Ns(2^k) : k \in 0 .. 17 }
        \cup { Ns(2^k - 1) : k \in 2 .. 17 }
        \cup { Ns(2^k + 1) : k \in 1 .. 17 }

\* iolatency.c:101: __u32 slot = log2_slot(us);
log2_slot_call(c) ==
    /\ cpus[c].pc = "call" /\ cpus[c].h = "log2_slot"
    /\ Goto(c, [pc |-> "ret", h |-> "log2_slot", us |-> cpus[c].us,
                slot |-> log2_slot(cpus[c].us)])
    /\ UNCHANGED <<attached, maps, clock, events, begins, last>>

InitSlot ==
    /\ attached = "iolatency"
    /\ maps = [n \in MapNames |-> EmptyMap]
    /\ clock = Zero
    /\ events = 0
    /\ begins = 0
    /\ last = "none"
    /\ cpus \in [CPUs -> { [pc |-> "call", h |-> "log2_slot", us |-> u] : u \in SlotInputs }]

NextSlot == \E c \in CPUs : log2_slot_call(c)

SpecSlot == InitSlot /\ [][NextSlot]_vars

\* ------------------------------------------- the threads of one process
\* offcpu with a process of two threads, thread c bound to CPU c, each CPU
\* switching between its thread and the idle task (tgid 0).  cpus[c] is what
\* the scheduler knows of thread c: on the CPU, or off it since a switch-out
\* at time since in state state.
ThreadGroup == 2

OnCpu == [pc |-> "idle", on |-> TRUE]

\* sched_switch on CPU c, prev = thread c, next = the idle task
thread_switch_out(c, prev_state, now) ==
    /\ attached = "offcpu"
    /\ cpus[c].on
    /\ events < MaxEvents
    /\ events' = events + 1
    /\ last' = "thread_switch_out"
    /\ sched_switch_body(ThreadGroup, prev_state, 0, now)
    /\ cpus' = [cpus EXCEPT ![c] = [pc |-> "idle", on |-> FALSE, state |-> prev_state,
                                     since |-> now]]
    /\ UNCHANGED attached

\* sched_switch on CPU c, prev = the idle task (TASK_RUNNING), next = thread c
thread_switch_in(c, now) ==
    /\ attached = "offcpu"
    /\ ~cpus[c].on
    /\ events < MaxEvents
    /\ events' = events + 1
    /\ last' = "thread_switch_in"
    /\ sched_switch_body(0, 0, ThreadGroup, now)
    /\ cpus' = [cpus EXCEPT ![c] = OnCpu]
    /\ UNCHANGED attached

\* lockwait with the same two threads: thread c is outside futex(), or
\* inside a futex() call of operation op entered at time since
NoCall == [pc |-> "idle", call |-> FALSE]

\* sys_enter_futex in thread c
thread_futex_enter(c, futexop, now) ==
    /\ attached = "lockwait"
    /\ ~cpus[c].call
    /\ events < MaxEvents
    /\ events' = events + 1
    /\ last' = "thread_futex_enter"
    /\ futex_enter_body(ThreadGroup, futexop, now)
    /\ cpus' = [cpus EXCEPT ![c] = [pc |-> "idle", call |-> TRUE, op |-> futexop,
                                     since |-> now]]
    /\ UNCHANGED attached

\* sys_exit_futex in thread c
thread_futex_exit(c, now) ==
    /\ attached = "lockwait"
    /\ cpus[c].call
    /\ events < MaxEvents
    /\ events' = events + 1
    /\ last' = "thread_futex_exit"
    /\ futex_exit_body(ThreadGroup, now)
    /\ cpus' = [cpus EXCEPT ![c] = NoCall]
    /\ UNCHANGED attached

InitThreads ==
    /\ attached \in { "offcpu", "lockwait" }
    /\ maps = [n \in MapNames |-> EmptyMap]
    /\ clock = Zero
    /\ events = 0
    /\ begins = 0
    /\ last = "none"
    /\ cpus = [c \in CPUs |-> IF attached = "offcpu" THEN OnCpu ELSE NoCall]

NextThreads ==
    \/ \E c \in CPUs, st \in { 0 } \cup TaskStates, t \in Now : thread_switch_out(c, st, t)
    \/ \E c \in CPUs, t \in Now : thread_switch_in(c, t)
    \/ \E c \in CPUs, op \in FutexOps, t \in Now : thread_futex_enter(c, op, t)
    \/ \E c \in CPUs, t \in Now : thread_futex_exit(c, t)

SpecThreads == InitThreads /\ [][NextThreads]_vars

\* ------------------------------------------------- a clock that steps back
\* The latency handlers with a staleness check, when bpf_ktime_get_ns() at the
\* end of an interval may return less than the timestamp the begin stored (a
\* clock anomaly): every invocation reads any of the object's Times.
Guarded == { "directreclaim", "lockwait", "pgfault", "runqlat", "offcpu",
             "syscalldissect", "sockio" }

\* the tasks of the context switches: the idle task and two processes
SkewPids == { 0, 2, 3 }

InitSkew ==
    /\ attached \in Guarded
    /\ maps = [n \in MapNames |-> EmptyMap]
    /\ clock = Zero
    /\ events = 0
    /\ begins = 0
    /\ last = "none"
    /\ cpus = [c \in CPUs |-> Idle]

NextSkew ==
    \/ \E pid \in Pids, t \in Times : handle_reclaim_begin(pid, t)
    \/ \E pid \in Pids, t \in Times : handle_reclaim_end(pid, t)
    \/ \E pid \in Pids, op \in FutexOps, t \in Times : handle_futex_enter(pid, op, t)
    \/ \E pid \in Pids, t \in Times : handle_futex_exit(pid, t)
    \/ \E pid \in Pids, t \in Times : handle_fault_enter(pid, t)
    \/ \E pid \in Pids, m \in {0, 1}, t \in Times : handle_fault_exit(pid, m, t)
    \/ \E task \in Tasks, t \in Times : handle_sched_wakeup(task, t)
    \/ \E task \in Tasks, t \in Times : handle_sched_switch_rqlat(task, t)
    \/ \E p \in SkewPids, st \in TaskStates, n \in SkewPids, t \in Times :
          handle_sched_switch(p, st, n, t)
    \/ \E pid \in Pids, t \in Times : handle_sys_enter(pid, t)
    \/ \E pid \in Pids, nr \in Syscalls, t \in Times : handle_sys_exit(pid, nr, t)
    \/ \E c \in RecvCalls, t \in Times : handle_tcp_recvmsg_enter(c[1], c[2], t)
    \/ \E pid \in Pids, t \in Times : handle_tcp_recvmsg_exit(pid, t)

SpecSkew == InitSkew /\ [][NextSkew]_vars

\* ------------------------------------------- iolatency.c on several CPUs
\* block_rq_issue and block_rq_complete run on two CPUs, one map access per
\* step.  iolat_hist is empty at first or holds the record of a process after
\* 2^32 - 1 completions of 1 us each (count and slot 0 are about to wrap).
IoBooted ==
    [total_ns |-> W(0, 4294, 967295000), max_ns |-> Ns(1000), count |-> U32_MAX, dev |-> 8,
     slots |-> [i \in 0 .. HIST_SLOTS - 1 |-> IF i = 0 THEN U32_MAX ELSE Zero]]

\* the requests issued: sector 1 of either device by process 1, of the first
\* device also by the idle task
IoIssues == { i \in Issues : i[2][1] = 1 }

\* iolatency.c:68-80, one step
io_issue(c, dev, sector, pid, t) ==
    /\ attached = "iolatency"
    /\ Call(c)
    /\ last' = "handle_block_rq_issue"
    /\ clock' = t
    /\ maps' = [maps EXCEPT !.inflight =
                   bpf_map_update_any(@, <<dev, sector>>, [pid |-> pid, start_ns |-> t])]
    /\ begins' = begins + Began(maps'.inflight, <<dev, sector>>)
    /\ UNCHANGED <<attached, cpus>>

\* iolatency.c:85-91; seen is the entry start points to as the lookup returns
io_complete_lookup(c, dev, sector) ==
    /\ attached = "iolatency"
    /\ Call(c)
    /\ last' = "handle_block_rq_complete"
    /\ IF ~bpf_map_lookup_elem(maps.inflight, <<dev, sector>>)
       THEN Goto(c, [pc |-> "ret", h |-> "handle_block_rq_complete", path |-> "none"])
       ELSE Goto(c, [pc |-> "read", h |-> "handle_block_rq_complete", rq |-> <<dev, sector>>,
                     dev |-> dev, seen |-> maps.inflight[<<dev, sector>>]])
    /\ UNCHANGED <<attached, maps, clock, begins>>

\* iolatency.c:93-94
io_complete_read(c, t, v) ==
    /\ cpus[c].pc = "read" /\ cpus[c].h = "handle_block_rq_complete"
    /\ v \in Deref(maps.inflight, cpus[c].rq, cpus[c].seen)
    /\ clock' = t
    /\ Goto(c, [pc |-> "delete", h |-> "handle_block_rq_complete", rq |-> cpus[c].rq,
                dev |-> cpus[c].dev, delta |-> Sub64(t, v.start_ns), pid |-> v.pid])
    /\ UNCHANGED <<attached, maps, events, begins, last>>

\* iolatency.c:95-101
io_complete_delete(c) ==
    /\ cpus[c].pc = "delete" /\ cpus[c].h = "handle_block_rq_complete"
    /\ maps' = [maps EXCEPT !.inflight = bpf_map_delete_elem(@, cpus[c].rq)]
    /\ IF cpus[c].delta = Zero \/ cpus[c].pid = 0
       THEN Goto(c, [pc |-> "ret", h |-> "handle_block_rq_complete", path |-> "filtered"])
       ELSE Goto(c, [pc |-> "hist_lookup", h |-> "handle_block_rq_complete",
                     dev |-> cpus[c].dev, delta |-> cpus[c].delta, pid |-> cpus[c].pid,
                     slot |-> log2_slot(Div1000(cpus[c].delta))])
    /\ UNCHANGED <<attached, clock, events, begins, last>>

\* iolatency.c:103-104, 110
io_hist_lookup(c) ==
    /\ cpus[c].pc = "hist_lookup" /\ cpus[c].h = "handle_block_rq_complete"
    /\ Goto(c, [cpus[c] EXCEPT !.pc = IF bpf_map_lookup_elem(maps.iolat_hist, cpus[c].pid)
                                      THEN "add_total" ELSE "insert"])
    /\ UNCHANGED <<attached, maps, clock, events, begins, last>>

\* iolatency.c:105
io_add_total(c) ==
    /\ cpus[c].pc = "add_total" /\ cpus[c].h = "handle_block_rq_complete"
    /\ maps' = [maps EXCEPT !.iolat_hist[cpus[c].pid].total_ns = Add64(@, cpus[c].delta)]
    /\ Goto(c, [cpus[c] EXCEPT !.pc = "add_count"])
    /\ UNCHANGED <<attached, clock, events, begins, last>>

\* iolatency.c:106
io_add_count(c) ==
    /\ cpus[c].pc = "add_count" /\ cpus[c].h = "handle_block_rq_complete"
    /\ maps' = [maps EXCEPT !.iolat_hist[cpus[c].pid].count = Add32(@, One)]
    /\ Goto(c, [cpus[c] EXCEPT !.pc = "add_slot"])
    /\ UNCHANGED <<attached, clock, events, begins, last>>

\* (an increment of the slot that the next completion in the same slot absorbs:
\* the counter is set to 1 when it is not 0)
io_add_slot_once(c) ==
    /\ cpus[c].pc = "add_slot" /\ cpus[c].h = "handle_block_rq_complete"
    /\ maps' = [maps EXCEPT
                  !.iolat_hist[cpus[c].pid].slots[cpus[c].slot % HIST_SLOTS] = One]
    /\ Goto(c, [cpus[c] EXCEPT !.pc = "max_load"])
    /\ UNCHANGED <<attached, clock, events, begins, last>>

\* iolatency.c:107
io_add_slot(c) ==
    /\ cpus[c].pc = "add_slot" /\ cpus[c].h = "handle_block_rq_complete"
    /\ maps' = [maps EXCEPT
                  !.iolat_hist[cpus[c].pid].slots[cpus[c].slot % HIST_SLOTS] = Add32(@, One)]
    /\ Goto(c, [cpus[c] EXCEPT !.pc = "max_load"])
    /\ UNCHANGED <<attached, clock, events, begins, last>>

\* iolatency.c:108, the comparison
io_max_load(c) ==
    /\ cpus[c].pc = "max_load" /\ cpus[c].h = "handle_block_rq_complete"
    /\ IF Gt(cpus[c].delta, maps.iolat_hist[cpus[c].pid].max_ns)
       THEN Goto(c, [cpus[c] EXCEPT !.pc = "max_store"])
       ELSE Goto(c, [pc |-> "ret", h |-> "handle_block_rq_complete", path |-> "merge"])
    /\ UNCHANGED <<attached, maps, clock, events, begins, last>>

\* iolatency.c:109
io_max_store(c) ==
    /\ cpus[c].pc = "max_store" /\ cpus[c].h = "handle_block_rq_complete"
    /\ maps' = [maps EXCEPT !.iolat_hist[cpus[c].pid].max_ns = cpus[c].delta]
    /\ Goto(c, [pc |-> "ret", h |-> "handle_block_rq_complete", path |-> "merge"])
    /\ UNCHANGED <<attached, clock, events, begins, last>>

\* iolatency.c:111-117
io_insert(c) ==
    /\ cpus[c].pc = "insert" /\ cpus[c].h = "handle_block_rq_complete"
    /\ maps' = [maps EXCEPT !.iolat_hist = bpf_map_update_noexist(@, cpus[c].pid,
                    [total_ns |-> cpus[c].delta, max_ns |-> cpus[c].delta, count |-> One,
                     dev |-> cpus[c].dev,
                     slots |-> [[i \in 0 .. HIST_SLOTS - 1 |-> Zero]
                                    EXCEPT ![cpus[c].slot % HIST_SLOTS] = One]])]
    /\ Goto(c, [pc |-> "ret", h |-> "handle_block_rq_complete", path |-> "insert"])
    /\ UNCHANGED <<attached, clock, events, begins, last>>

InitIo ==
    /\ attached = "iolatency"
    /\ maps \in { [[n \in MapNames |-> EmptyMap] EXCEPT !.iolat_hist = h] :
                  h \in { EmptyMap, [k \in {1} |-> IoBooted] } }
    /\ clock = Zero
    /\ events = 0
    /\ begins = 0
    /\ last = "none"
    /\ cpus = [c \in CPUs |-> Idle]

NextIo ==
    \/ \E c \in CPUs, i \in IoIssues, t \in Now : io_issue(c, i[1], i[2][1], i[2][2], t)
    \/ \E c \in CPUs, i \in IoIssues : io_complete_lookup(c, i[1], i[2][1])
    \/ \E c \in CPUs, t \in Now, i \in IoIssues, ts \in Times :
          io_complete_read(c, t, [pid |-> i[2][2], start_ns |-> ts])
    \/ \E c \in CPUs : io_complete_delete(c)
    \/ \E c \in CPUs : io_hist_lookup(c)
    \/ \E c \in CPUs : io_add_total(c)
    \/ \E c \in CPUs : io_add_count(c)
    \/ \E c \in CPUs : io_add_slot(c)
    \/ \E c \in CPUs : io_max_load(c)
    \/ \E c \in CPUs : io_max_store(c)
    \/ \E c \in CPUs : io_insert(c)
    \/ \E c \in CPUs : handler_return(c)

SpecIo == InitIo /\ [][NextIo]_vars

\* ==================================================================== claims
\* the accumulation table holds the key or has a free slot
Room(acc, k) == k \in DOMAIN acc \/ Cardinality(DOMAIN acc) < MaxRecords

\* the pairing table holds the key or has a free slot
Slot(m, k) == k \in DOMAIN m \/ Cardinality(DOMAIN m) < MaxEntries

\* from acc to accN the record of k gained one sample of duration delta
\* (tot, cnt: the names of its total and count fields)
Gains(acc, accN, k, delta, tot, cnt) ==
    /\ k \in DOMAIN accN
    /\ IF k \in DOMAIN acc
       THEN /\ accN[k][cnt] = Add32(acc[k][cnt], One)
            /\ accN[k][tot] = Add64(acc[k][tot], delta)
       ELSE /\ accN[k][cnt] = One
            /\ accN[k][tot] = delta

\* The end of a pairing whose duration is below the ceiling adds one sample,
\* handler by handler.  strict: zero durations (lockwait, iolatency) and requests
\* issued by pid 0 (iolatency) are left out.
PairedSample(strict) ==
    /\ attached = "directreclaim" =>
       \A pid \in Pids, t \in Times :
           LET m == maps.reclaim_start IN
           (handle_reclaim_end(pid, t) /\ pid \in DOMAIN m
              /\ Lt(Sub64(t, m[pid]), Ceil30s) /\ Room(maps.reclaim_accum, pid))
           => Gains(maps.reclaim_accum, maps'.reclaim_accum, pid, Sub64(t, m[pid]),
                    "stall_ns", "count")
    /\ attached = "lockwait" =>
       \A pid \in Pids, t \in Times :
           LET m == maps.futex_start IN
           (handle_futex_exit(pid, t) /\ pid \in DOMAIN m
              /\ Lt(Sub64(t, m[pid]), Ceil30s) /\ Room(maps.futex_accum, pid)
              /\ (strict => Sub64(t, m[pid]) # Zero))
           => Gains(maps.futex_accum, maps'.futex_accum, pid, Sub64(t, m[pid]),
                    "total_wait_ns", "count")
    /\ attached = "pgfault" =>
       \A pid \in Pids, mj \in {0, 1}, t \in Times :
           LET m == maps.pgfault_start IN
           (handle_fault_exit(pid, mj, t) /\ pid \in DOMAIN m
              /\ Lt(Sub64(t, m[pid]), Ceil5s) /\ Room(maps.pgfault_accum, pid))
           => Gains(maps.pgfault_accum, maps'.pgfault_accum, pid, Sub64(t, m[pid]),
                    "total_ns", "count")
    /\ attached = "runqlat" =>
       \A task \in Tasks, t \in Times :
           LET m == maps.rq_start
               pid == task.tgid
           IN
           (handle_sched_switch_rqlat(task, t) /\ pid \in DOMAIN m
              /\ Lt(Sub64(t, m[pid]), Ceil10s) /\ Room(maps.rqlat_accum, pid))
           => Gains(maps.rqlat_accum, maps'.rqlat_accum, pid, Sub64(t, m[pid]),
                    "total_ns", "count")
    /\ attached = "offcpu" =>
       \A p \in SwitchPids, st \in TaskStates, n \in SwitchPids, t \in Times :
           LET m == maps.offcpu_start IN
           (n # p /\ n \in DOMAIN m /\ clock' = t
              /\ Lt(Sub64(t, m[n]), Ceil30s) /\ Room(maps.offcpu_accum, n)
              /\ handle_sched_switch(p, st, n, t))
           => Gains(maps.offcpu_accum, maps'.offcpu_accum, n, Sub64(t, m[n]),
                    "total_ns", "count")
    /\ attached = "syscalldissect" =>
       \A pid \in Pids, nr \in Syscalls, t \in Times :
           LET m == maps.sc_start IN
           (handle_sys_exit(pid, nr, t) /\ pid \in DOMAIN m
              /\ Lt(Sub64(t, m[pid]), Ceil30s) /\ Room(maps.sc_accum, <<pid, nr>>))
           => Gains(maps.sc_accum, maps'.sc_accum, <<pid, nr>>, Sub64(t, m[pid]),
                    "total_ns", "count")
    /\ attached = "iolatency" =>
       \A d \in Devs, sec \in Sectors, t \in Times :
           LET m == maps.inflight
               k == <<d, sec>>
           IN
           (handle_block_rq_complete(d, sec, t) /\ k \in DOMAIN m
              /\ Room(maps.iolat_hist, m[k].pid)
              /\ (strict => Sub64(t, m[k].start_ns) # Zero /\ m[k].pid # 0))
           => Gains(maps.iolat_hist, maps'.iolat_hist, m[k].pid, Sub64(t, m[k].start_ns),
                    "total_ns", "count")
    /\ attached = "sockio" =>
       \A pid \in Pids, t \in Times :
           LET m == maps.recv_inflight IN
           (handle_tcp_recvmsg_exit(pid, t) /\ pid \in DOMAIN m
              /\ Lt(Sub64(t, m[pid].ts), Ceil30s)
              /\ Room(maps.sockio_accum, <<pid, m[pid].daddr, m[pid].dport>>))
           => Gains(maps.sockio_accum, maps'.sockio_accum,
                    <<pid, m[pid].daddr, m[pid].dport>>, Sub64(t, m[pid].ts),
                    "recv_wait_ns", "recv_count")
    /\ attached = "tcpconnlat" =>
       \A sk \in SockAddrs, d \in Daddrs, t \in Times :
           LET m == maps.conn_inflight IN
           (handle_set_state(sk, TCP_SYN_SENT, TCP_ESTABLISHED, d, t) /\ sk \in DOMAIN m
              /\ Room(maps.connlat_accum, m[sk].pid))
           => Gains(maps.connlat_accum, maps'.connlat_accum, m[sk].pid, Sub64(t, m[sk].ts),
                    "total_ns", "count")

\* C1 as stated: in every begin/end-paired handler, the end of a pairing whose
\* duration is below the ceiling (zero included), with the sample's key in the
\* accumulation table or a free slot, adds exactly one sample: count + 1 and
\* total + (t2 - t1), or a new record with count 1 and total t2 - t1.
C1_AsStated == [][PairedSample(FALSE)]_vars

\* C1 amended: the same for a duration t2 - t1 > 0 in lockwait and iolatency, and
\* for a request issued by a process other than pid 0 in iolatency; the other
\* handlers also count a duration of 0.
C1_PairedSample == [][PairedSample(TRUE)]_vars

\* a second futex wait of a process was merged into its record
C1_Witness ==
    /\ last = "handle_futex_exit"
    /\ \E pid \in DOMAIN maps.futex_accum : maps.futex_accum[pid].count = Ns(2)

\* ---------------------------------------------------------------------- C2
Always(m, k) == TRUE
Held(m, k) == k \in DOMAIN m

\* after a begin that passed the handler's filter, in a state where Pre holds
\* of the pairing table and the key, the table holds the begin's timestamp
\* and context under the key
BeginWrites(Pre(_, _)) ==
    /\ attached = "directreclaim" =>
       \A pid \in Pids, t \in Times :
           (pid # 0 /\ Pre(maps.reclaim_start, pid) /\ handle_reclaim_begin(pid, t))
           => (pid \in DOMAIN maps'.reclaim_start /\ maps'.reclaim_start[pid] = t)
    /\ attached = "lockwait" =>
       \A pid \in Pids, op \in FutexOps, t \in Times :
           (pid # 0 /\ op % 128 \in {FUTEX_WAIT, FUTEX_WAIT_BITSET, FUTEX_LOCK_PI}
              /\ Pre(maps.futex_start, pid) /\ handle_futex_enter(pid, op, t))
           => (pid \in DOMAIN maps'.futex_start /\ maps'.futex_start[pid] = t)
    /\ attached = "pgfault" =>
       \A pid \in Pids, t \in Times :
           (pid # 0 /\ Pre(maps.pgfault_start, pid) /\ handle_fault_enter(pid, t))
           => (pid \in DOMAIN maps'.pgfault_start /\ maps'.pgfault_start[pid] = t)
    /\ attached = "runqlat" =>
       \A task \in Tasks, t \in Times :
           (task.pid # 0 /\ Pre(maps.rq_start, task.pid) /\ handle_sched_wakeup(task, t))
           => (task.pid \in DOMAIN maps'.rq_start /\ maps'.rq_start[task.pid] = t)
    /\ attached = "offcpu" =>
       \A p \in SwitchPids, st \in TaskStates, n \in SwitchPids, t \in Times :
           (p > 1 /\ st # TASK_INTERRUPTIBLE /\ n # p /\ clock' = t
              /\ Pre(maps.offcpu_start, p) /\ handle_sched_switch(p, st, n, t))
           => (p \in DOMAIN maps'.offcpu_start /\ maps'.offcpu_start[p] = t)
    /\ attached = "syscalldissect" =>
       \A pid \in Pids, t \in Times :
           (pid # 0 /\ Pre(maps.sc_start, pid) /\ handle_sys_enter(pid, t))
           => (pid \in DOMAIN maps'.sc_start /\ maps'.sc_start[pid] = t)
    /\ attached = "iolatency" =>
       \A d \in Devs, rq \in Requests, t \in Times :
           (Pre(maps.inflight, <<d, rq[1]>>) /\ handle_block_rq_issue(d, rq[1], rq[2], t))
           => /\ <<d, rq[1]>> \in DOMAIN maps'.inflight
              /\ maps'.inflight[<<d, rq[1]>>] = [pid |-> rq[2], start_ns |-> t]
    /\ attached = "sockio" =>
       \A rc \in RecvCalls, t \in Times :
           (rc[1] # 0 /\ Pre(maps.recv_inflight, rc[1])
              /\ handle_tcp_recvmsg_enter(rc[1], rc[2], t))
           => /\ rc[1] \in DOMAIN maps'.recv_inflight
              /\ maps'.recv_inflight[rc[1]] =
                    [ts |-> t, daddr |-> rc[2].daddr, dport |-> bswap16(rc[2].dport)]
    /\ attached = "tcpconnlat" =>
       \A cn \in Connects, t \in Times :
           (cn[2] # 0 /\ Pre(maps.conn_inflight, cn[1])
              /\ handle_tcp_v4_connect(cn[1], cn[2], t))
           => /\ cn[1] \in DOMAIN maps'.conn_inflight
              /\ maps'.conn_inflight[cn[1]] = [ts |-> t, pid |-> cn[2]]

\* an end that finds an entry removes it, and a sample it adds has the duration
\* now - (the timestamp the entry holds)
EndPairsWithHeld ==
    /\ attached = "syscalldissect" =>
       \A pid \in Pids, nr \in Syscalls, t \in Times :
           LET m == maps.sc_start IN
           (pid \in DOMAIN m /\ handle_sys_exit(pid, nr, t))
           => /\ pid \notin DOMAIN maps'.sc_start
              /\ \/ maps'.sc_accum = maps.sc_accum
                 \/ Gains(maps.sc_accum, maps'.sc_accum, <<pid, nr>>, Sub64(t, m[pid]),
                          "total_ns", "count")
    /\ attached = "sockio" =>
       \A pid \in Pids, t \in Times :
           LET m == maps.recv_inflight IN
           (pid \in DOMAIN m /\ handle_tcp_recvmsg_exit(pid, t))
           => /\ pid \notin DOMAIN maps'.recv_inflight
              /\ \/ maps'.sockio_accum = maps.sockio_accum
                 \/ Gains(maps.sockio_accum, maps'.sockio_accum,
                          <<pid, m[pid].daddr, m[pid].dport>>, Sub64(t, m[pid].ts),
                          "recv_wait_ns", "recv_count")

\* C2: last begin wins.  A begin for a key the pairing table already holds
\* replaces the entry by its own timestamp and context (there is one entry per
\* key); the next end removes the entry and computes its duration from the
\* timestamp the entry holds, that of the last begin, so that a further end
\* finds no entry.
C2_LastBeginWins == [][BeginWrites(Held) /\ EndPairsWithHeld]_vars

\* two syscall entries of one process, the second at a later time, and nothing else
C2_Witness ==
    /\ last = "handle_sys_enter"
    /\ events = 2 /\ begins = 2
    /\ Gt(clock, Ns(1000))
    /\ \E pid \in Pids : DOMAIN maps.sc_start = {pid} /\ maps.sc_start[pid] = clock

\* ---------------------------------------------------------------------- C3
\* C3: an end for a key without an entry in the pairing table changes no table:
\* no accumulation table and not the pairing table.  (offcpu's handler is the
\* end of next and the begin of prev at once: there the pairing table changes
\* by prev's begin only.)
C3_EndWithoutBegin ==
    [][/\ attached = "directreclaim" =>
          \A pid \in Pids, t \in Times :
              (pid \notin DOMAIN maps.reclaim_start /\ handle_reclaim_end(pid, t))
              => maps' = maps
       /\ attached = "lockwait" =>
          \A pid \in Pids, t \in Times :
              (pid \notin DOMAIN maps.futex_start /\ handle_futex_exit(pid, t))
              => maps' = maps
       /\ attached = "pgfault" =>
          \A pid \in Pids, mj \in {0, 1}, t \in Times :
              (pid \notin DOMAIN maps.pgfault_start /\ handle_fault_exit(pid, mj, t))
              => maps' = maps
       /\ attached = "runqlat" =>
          \A task \in Tasks, t \in Times :
              (task.tgid \notin DOMAIN maps.rq_start /\ handle_sched_switch_rqlat(task, t))
              => maps' = maps
       /\ attached = "offcpu" =>
          \A p \in SwitchPids, st \in TaskStates, n \in SwitchPids, t \in Times :
              (n # p /\ n \notin DOMAIN maps.offcpu_start /\ clock' = t
                 /\ handle_sched_switch(p, st, n, t))
              => maps' = [maps EXCEPT
                            !.offcpu_start = offcpu_switch_out(@, p, st, t)]
       /\ attached = "syscalldissect" =>
          \A pid \in Pids, nr \in Syscalls, t \in Times :
              (pid \notin DOMAIN maps.sc_start /\ handle_sys_exit(pid, nr, t))
              => maps' = maps
       /\ attached = "iolatency" =>
          \A d \in Devs, sec \in Sectors, t \in Times :
              (<<d, sec>> \notin DOMAIN maps.inflight /\ handle_block_rq_complete(d, sec, t))
              => maps' = maps
       /\ attached = "sockio" =>
          \A pid \in Pids, t \in Times :
              (pid \notin DOMAIN maps.recv_inflight /\ handle_tcp_recvmsg_exit(pid, t))
              => maps' = maps
       /\ attached = "tcpconnlat" =>
          \A sk \in SockAddrs, sp \in StatePairs, d \in Daddrs, t \in Times :
              (sk \notin DOMAIN maps.conn_inflight
                 /\ handle_set_state(sk, sp[1], sp[2], d, t))
              => maps' = maps
      ]_vars

\* a fault exit as the first event, before any begin: no table has a record
C3_Witness ==
    /\ last = "handle_fault_exit"
    /\ events = 1 /\ begins = 0
    /\ maps.pgfault_start = EmptyMap /\ maps.pgfault_accum = EmptyMap

\* ---------------------------------------------------------------------- C4
\* an end whose duration is above the handler's ceiling (30 s in directreclaim,
\* lockwait, offcpu, syscalldissect and sockio, 10 s in runqlat, 5 s in pgfault)
\* leaves the handler's accumulation table as it was
StaleDiscarded ==
    /\ attached = "directreclaim" =>
       \A pid \in Pids, t \in Times :
           LET m == maps.reclaim_start IN
           (pid \in DOMAIN m /\ Gt(Sub64(t, m[pid]), Ceil30s) /\ handle_reclaim_end(pid, t))
           => maps'.reclaim_accum = maps.reclaim_accum
    /\ attached = "lockwait" =>
       \A pid \in Pids, t \in Times :
           LET m == maps.futex_start IN
           (pid \in DOMAIN m /\ Gt(Sub64(t, m[pid]), Ceil30s) /\ handle_futex_exit(pid, t))
           => maps'.futex_accum = maps.futex_accum
    /\ attached = "pgfault" =>
       \A pid \in Pids, mj \in {0, 1}, t \in Times :
           LET m == maps.pgfault_start IN
           (pid \in DOMAIN m /\ Gt(Sub64(t, m[pid]), Ceil5s)
              /\ handle_fault_exit(pid, mj, t))
           => maps'.pgfault_accum = maps.pgfault_accum
    /\ attached = "runqlat" =>
       \A task \in Tasks, t \in Times :
           LET m == maps.rq_start IN
           (task.tgid \in DOMAIN m /\ Gt(Sub64(t, m[task.tgid]), Ceil10s)
              /\ handle_sched_switch_rqlat(task, t))
           => maps'.rqlat_accum = maps.rqlat_accum
    /\ attached = "offcpu" =>
       \A p \in SwitchPids, st \in TaskStates, n \in SwitchPids, t \in Times :
           LET m == maps.offcpu_start IN
           (n # p /\ n \in DOMAIN m /\ clock' = t /\ Gt(Sub64(t, m[n]), Ceil30s)
              /\ handle_sched_switch(p, st, n, t))
           => maps'.offcpu_accum = maps.offcpu_accum
    /\ attached = "syscalldissect" =>
       \A pid \in Pids, nr \in Syscalls, t \in Times :
           LET m == maps.sc_start IN
           (pid \in DOMAIN m /\ Gt(Sub64(t, m[pid]), Ceil30s)
              /\ handle_sys_exit(pid, nr, t))
           => maps'.sc_accum = maps.sc_accum
    /\ attached = "sockio" =>
       \A pid \in Pids, t \in Times :
           LET m == maps.recv_inflight IN
           (pid \in DOMAIN m /\ Gt(Sub64(t, m[pid].ts), Ceil30s)
              /\ handle_tcp_recvmsg_exit(pid, t))
           => maps'.sockio_accum = maps.sockio_accum

\* C4: a paired duration above the handler's ceiling (30 s in directreclaim,
\* lockwait, offcpu, syscalldissect and sockio, 10 s in runqlat, 5 s in
\* pgfault) changes no accumulation record: none is created, and an existing
\* one keeps every field.
C4_StaleDiscarded == [][StaleDiscarded]_vars

\* a reclaim began at 1000 ns and ended at 31 s + 1000 ns: its entry is gone
\* and no record was made
C4_Witness ==
    /\ last = "handle_reclaim_end"
    /\ clock = W(0, 31, 1000)
    /\ events = 2 /\ begins = 1
    /\ maps.reclaim_start = EmptyMap /\ maps.reclaim_accum = EmptyMap

\* ---------------------------------------------------------------------- C5
\* C5: every latency-pairing handler discards a paired duration above 30 s:
\* what holds of the seven handlers with a ceiling also holds of tcpconnlat's
\* connlat_accum and of iolatency's iolat_hist.
C5_CeilingEverywhere ==
    [][/\ StaleDiscarded
       /\ attached = "tcpconnlat" =>
          \A sk \in SockAddrs, d \in Daddrs, t \in Times :
              LET m == maps.conn_inflight IN
              (sk \in DOMAIN m /\ Gt(Sub64(t, m[sk].ts), Ceil30s)
                 /\ handle_set_state(sk, TCP_SYN_SENT, TCP_ESTABLISHED, d, t))
              => maps'.connlat_accum = maps.connlat_accum
       /\ attached = "iolatency" =>
          \A d \in Devs, sec \in Sectors, t \in Times :
              LET m == maps.inflight IN
              (<<d, sec>> \in DOMAIN m /\ Gt(Sub64(t, m[<<d, sec>>].start_ns), Ceil30s)
                 /\ handle_block_rq_complete(d, sec, t))
              => maps'.iolat_hist = maps.iolat_hist
      ]_vars

\* ---------------------------------------------------------------------- C6
Full(acc) == Cardinality(DOMAIN acc) = MaxRecords

\* C6: with the accumulation table full, an invocation whose key the table
\* does not hold leaves the table as it was: no record is added and every
\* record keeps every field; an invocation for a key the table holds still
\* merges: the count of that record grows by one (kfreeskb, cgthrottle), or
\* the record takes the event's timestamp (oomkill), the other records kept.
C6_FullTableSheds ==
    [][/\ attached = "kfreeskb" =>
          \A r \in Reasons :
              LET acc == maps.drop_accum IN
              (r # 0 /\ Full(acc) /\ handle_kfree_skb(r))
              => IF r \in DOMAIN acc
                 THEN maps'.drop_accum = [acc EXCEPT ![r].count = Add64(@, One)]
                 ELSE maps'.drop_accum = acc
       /\ attached = "cgthrottle" =>
          \A cg \in Cgroups :
              LET acc == maps.throttle_accum IN
              (Full(acc) /\ handle_throttle_cfs_rq(cg))
              => IF cg \in DOMAIN acc
                 THEN maps'.throttle_accum = [acc EXCEPT ![cg].count = Add64(@, One)]
                 ELSE maps'.throttle_accum = acc
       /\ attached = "oomkill" =>
          \A pid \in Pids, t \in Times :
              LET acc == maps.oom_accum IN
              (Cardinality(DOMAIN acc) = MaxEntries /\ handle_mark_victim(pid, t))
              => IF pid \in DOMAIN acc
                 THEN maps'.oom_accum = [acc EXCEPT ![pid].ts = t]
                 ELSE maps'.oom_accum = acc
       /\ attached = "directreclaim" =>
          \A pid \in Pids, t \in Times :
              (Full(maps.reclaim_accum) /\ pid \notin DOMAIN maps.reclaim_accum
                 /\ handle_reclaim_end(pid, t))
              => maps'.reclaim_accum = maps.reclaim_accum
       /\ attached = "lockwait" =>
          \A pid \in Pids, t \in Times :
              (Full(maps.futex_accum) /\ pid \notin DOMAIN maps.futex_accum
                 /\ handle_futex_exit(pid, t))
              => maps'.futex_accum = maps.futex_accum
       /\ attached = "pgfault" =>
          \A pid \in Pids, mj \in {0, 1}, t \in Times :
              (Full(maps.pgfault_accum) /\ pid \notin DOMAIN maps.pgfault_accum
                 /\ handle_fault_exit(pid, mj, t))
              => maps'.pgfault_accum = maps.pgfault_accum
       /\ attached = "runqlat" =>
          \A task \in Tasks, t \in Times :
              (Full(maps.rqlat_accum) /\ task.tgid \notin DOMAIN maps.rqlat_accum
                 /\ handle_sched_switch_rqlat(task, t))
              => maps'.rqlat_accum = maps.rqlat_accum
       /\ attached = "offcpu" =>
          \A p \in SwitchPids, st \in TaskStates, n \in SwitchPids, t \in Times :
              (Full(maps.offcpu_accum) /\ n \notin DOMAIN maps.offcpu_accum /\ clock' = t
                 /\ handle_sched_switch(p, st, n, t))
              => maps'.offcpu_accum = maps.offcpu_accum
       /\ attached = "syscalldissect" =>
          \A pid \in Pids, nr \in Syscalls, t \in Times :
              (Full(maps.sc_accum) /\ <<pid, nr>> \notin DOMAIN maps.sc_accum
                 /\ handle_sys_exit(pid, nr, t))
              => maps'.sc_accum = maps.sc_accum
       /\ attached = "iolatency" =>
          \A d \in Devs, sec \in Sectors, t \in Times :
              LET m == maps.inflight IN
              (Full(maps.iolat_hist) /\ <<d, sec>> \in DOMAIN m
                 /\ m[<<d, sec>>].pid \notin DOMAIN maps.iolat_hist
                 /\ handle_block_rq_complete(d, sec, t))
              => maps'.iolat_hist = maps.iolat_hist
       /\ attached = "sockio" =>
          \A pid \in Pids, t \in Times :
              LET m == maps.recv_inflight IN
              (Full(maps.sockio_accum) /\ pid \in DOMAIN m
                 /\ <<pid, m[pid].daddr, m[pid].dport>> \notin DOMAIN maps.sockio_accum
                 /\ handle_tcp_recvmsg_exit(pid, t))
              => maps'.sockio_accum = maps.sockio_accum
       /\ attached = "tcpconnlat" =>
          \A sk \in SockAddrs, d \in Daddrs, t \in Times :
              LET m == maps.conn_inflight IN
              (Full(maps.connlat_accum) /\ sk \in DOMAIN m
                 /\ m[sk].pid \notin DOMAIN maps.connlat_accum
                 /\ handle_set_state(sk, TCP_SYN_SENT, TCP_ESTABLISHED, d, t))
              => maps'.connlat_accum = maps.connlat_accum
      ]_vars

\* oom_accum is full and no record carries the time of the last kill: the
\* victim of that kill was a process the full table did not hold
C6_Witness ==
    /\ last = "handle_mark_victim"
    /\ events = MaxEntries + 1
    /\ Cardinality(DOMAIN maps.oom_accum) = MaxEntries
    /\ \A pid \in DOMAIN maps.oom_accum : Lt(maps.oom_accum[pid].ts, clock)

C10_EndRemoves ==
    [][/\ attached = "directreclaim" =>
          \A pid \in Pids, t \in Times :
              (pid \in DOMAIN maps.reclaim_start /\ handle_reclaim_end(pid, t))
              => pid \notin DOMAIN maps'.reclaim_start
       /\ attached = "lockwait" =>
          \A pid \in Pids, t \in Times :
              (pid \in DOMAIN maps.futex_start /\ handle_futex_exit(pid, t))
              => pid \notin DOMAIN maps'.futex_start
       /\ attached = "pgfault" =>
          \A pid \in Pids, mj \in {0, 1}, t \in Times :
              (pid \in DOMAIN maps.pgfault_start /\ handle_fault_exit(pid, mj, t))
              => pid \notin DOMAIN maps'.pgfault_start
       /\ attached = "runqlat" =>
          \A task \in Tasks, t \in Times :
              (task.tgid \in DOMAIN maps.rq_start /\ handle_sched_switch_rqlat(task, t))
              => task.tgid \notin DOMAIN maps'.rq_start
       /\ attached = "offcpu" =>
          \A p \in SwitchPids, st \in TaskStates, n \in SwitchPids, t \in Times :
              (clock' = t /\ n \in DOMAIN offcpu_switch_out(maps.offcpu_start, p, st, t)
                 /\ handle_sched_switch(p, st, n, t))
              => n \notin DOMAIN maps'.offcpu_start
       /\ attached = "syscalldissect" =>
          \A pid \in Pids, nr \in Syscalls, t \in Times :
              (pid \in DOMAIN maps.sc_start /\ handle_sys_exit(pid, nr, t))
              => pid \notin DOMAIN maps'.sc_start
       /\ attached = "iolatency" =>
          \A d \in Devs, sec \in Sectors, t \in Times :
              (<<d, sec>> \in DOMAIN maps.inflight /\ handle_block_rq_complete(d, sec, t))
              => <<d, sec>> \notin DOMAIN maps'.inflight
       /\ attached = "sockio" =>
          \A pid \in Pids, t \in Times :
              (pid \in DOMAIN maps.recv_inflight /\ handle_tcp_recvmsg_exit(pid, t))
              => pid \notin DOMAIN maps'.recv_inflight
       /\ attached = "tcpconnlat" =>
          \A sk \in SockAddrs, d \in Daddrs, t \in Times :
              (sk \in DOMAIN maps.conn_inflight
                 /\ handle_set_state(sk, TCP_SYN_SENT, TCP_ESTABLISHED, d, t))
              => sk \notin DOMAIN maps'.conn_inflight
      ]_vars

\* two wakeups were paired at once, both entries are gone, and the full table
\* took one sample only: the other was dropped, its entry removed
C10_Witness ==
    /\ last = "handle_sched_switch_rqlat"
    /\ events = 4 /\ begins = 2
    /\ clock = Ns(1000)
    /\ maps.rq_start = EmptyMap
    /\ \E pid \in Pids : DOMAIN maps.rqlat_accum = {pid}
                         /\ maps.rqlat_accum[pid].count = One

\* ---------------------------------------------------------------------- C7
\* both CPUs ran the handler for one key, both lookups missed before either
\* insert, and both went through the insert
BothInserted ==
    /\ \A c \in CPUs : cpus[c].pc = "ret" /\ cpus[c].path = "insert" /\ cpus[c].raced
    /\ cpus[1].h = cpus[2].h
    /\ cpus[1].key = cpus[2].key

\* the accumulation table the handler on the CPUs upserts into
UpsertTable ==
    CASE cpus[1].h = "handle_sys_exit" -> maps.sc_accum
      [] cpus[1].h = "handle_writeback_wait" -> maps.wb_accum
      [] cpus[1].h = "handle_tcp_rcv_established" -> maps.rtt_accum
      [] OTHER -> maps.throttle_accum

\* the record the invocation on CPU c inserts
SampleOf(c) ==
    CASE cpus[c].h = "handle_sys_exit" ->
            [total_ns |-> cpus[c].delta, count |-> One, max_ns |-> Clamp32(cpus[c].delta)]
      [] cpus[c].h = "handle_writeback_wait" ->
            [count |-> One, total_pages |-> cpus[c].nr_pages]
      [] cpus[c].h = "handle_tcp_rcv_established" ->
            [sum_us |-> cpus[c].srtt, count |-> One, min_us |-> cpus[c].srtt,
             max_us |-> cpus[c].srtt, last_pid |-> cpus[c].pid]
      [] OTHER -> [count |-> One]

\* the table has one record for the key, that of one of the two samples
OneWinner ==
    /\ cpus[1].key \in DOMAIN UpsertTable
    /\ \E c \in CPUs : UpsertTable[cpus[1].key] = SampleOf(c)

\* C7 as stated: two invocations upsert one key that the table does not hold,
\* each looking the key up and then inserting it if absent; however the steps
\* interleave, the table ends with one record for the key, which is the sample
\* of one of the two (not both merged, not neither).
C7_AsStated == BothInserted => OneWinner

\* C7 amended: the same when the table is not full of other keys; when it is,
\* both inserts are refused and the table has no record for the key.
C7_OneWinner ==
    (BothInserted /\ Room(UpsertTable, cpus[1].key)) => OneWinner

\* two throttle events of one cgroup, the first two events, raced through the
\* insert of the cgroup's record into the empty table
C7_Witness ==
    /\ BothInserted
    /\ cpus[1].h = "handle_throttle_cfs_rq"
    /\ events = 2
    /\ maps.throttle_accum[cpus[1].key].count = One

\* ---------------------------------------------------------------------- C9
RECURSIVE Samples(_, _)
\* the samples the records of the keys S of an accumulation table count
Samples(acc, S) ==
    IF S = {} THEN 0
    ELSE LET k == CHOOSE x \in S : TRUE IN acc[k].count[3] + Samples(acc, S \ {k})

\* C9: an entry written by a begin contributes to at most one sample, under
\* every interleaving: sc_accum never counts more samples than entries were
\* written into sc_start.
C9_ConsumedOnce ==
    attached = "syscalldissect" => Samples(maps.sc_accum, DOMAIN maps.sc_accum) <= begins

\* --------------------------------------------------------------------- C11
\* both CPUs have returned from merges into the record of one key that
\* overlapped: the two lookups returned the same record, so neither started
\* after an add of the other
BothMerged ==
    /\ attached = "wbstall"
    /\ \A c \in CPUs : cpus[c].pc = "ret" /\ cpus[c].path = "merge"
    /\ cpus[1].key = cpus[2].key
    /\ cpus[1].seen = cpus[2].seen

\* C11: counter and sum merges lose no update.  When concurrent invocations
\* (here the two of the two CPUs) that merge into an existing record have
\* returned, however their atomic adds interleaved, count has grown by their
\* number and total_pages by the sum of their samples, modulo 2^64.
C11_NoLostUpdate ==
    BothMerged =>
        LET r == maps.wb_accum[cpus[1].key]
            s == cpus[1].seen
        IN  /\ r.count = Add64(s.count, Ns(Cardinality(CPUs)))
            /\ r.total_pages = Add64(Add64(s.total_pages, cpus[1].nr_pages), cpus[2].nr_pages)

\* the first writeback wait of a process inserted its record, the next two, of
\* 3 and of 5 pages, merged into it concurrently
C11_Witness ==
    /\ BothMerged
    /\ events = 3
    /\ cpus[1].seen.count = One
    /\ cpus[1].nr_pages # cpus[2].nr_pages
    /\ maps.wb_accum[cpus[1].key].count = Ns(3)

\* --------------------------------------------------------------------- C12
\* CPU c stores the max field in this step
MaxStore(c) == cpus[c].pc = "max_store" /\ cpus'[c].pc # "max_store"

\* the max field of the record CPU c merges into, in the maps m
MaxField(m, c) ==
    IF cpus[c].h = "handle_sys_exit"
    THEN m.sc_accum[cpus[c].key].max_ns
    ELSE m.rtt_accum[cpus[c].key].max_us

\* the sample CPU c compares with the max field: the clamped duration, the RTT
MaxSample(c) ==
    IF cpus[c].h = "handle_sys_exit" THEN Clamp32(cpus[c].delta) ELSE cpus[c].srtt

\* C12: max tracking is racy.  The store that follows the comparison writes
\* the merge's own sample whatever the record holds by then, so of two
\* concurrent merges that both read the old max before either wrote, the one
\* with the smaller sample can store last and leave a max below the larger
\* sample (the witness).
C12_RacyMax ==
    [][\A c \in CPUs : MaxStore(c) => MaxField(maps', c) = MaxSample(c)]_vars

\* two concurrent merges into one record of rtt_accum have returned and the
\* record's max_us is below the larger of their two RTTs
C12_Witness ==
    /\ attached = "tcprtt"
    /\ \A c \in CPUs : cpus[c].pc = "ret" /\ cpus[c].path = "merge"
    /\ cpus[1].key = cpus[2].key
    /\ \E c \in CPUs : Lt(maps.rtt_accum[cpus[1].key].max_us, cpus[c].srtt)

\* --------------------------------------------------------------------- C13
\* the records with a max field
MaxTable(m) == IF attached = "syscalldissect" THEN m.sc_accum ELSE m.rtt_accum
MaxOf(r) == IF attached = "syscalldissect" THEN r.max_ns ELSE r.max_us

\* C13 as stated: max tracking is a compare-and-swap; under every interleaving
\* of merges no step replaces a recorded max by a smaller one.
MaxNeverDecreases ==
    attached \in { "syscalldissect", "tcprtt" } =>
        \A k \in DOMAIN MaxTable(maps) :
            ~Lt(MaxOf(MaxTable(maps')[k]), MaxOf(MaxTable(maps)[k]))

C13_AsStated == [][MaxNeverDecreases]_vars

\* C13 amended: max tracking is a compare-then-store; under every interleaving
\* a merge stores only a sample above the max it read, so the max field
\* decreases only in the store of a merge that read it before another merge
\* wrote it.
CompareThenStore ==
    attached \in { "syscalldissect", "tcprtt" } =>
        /\ \A c \in CPUs : MaxStore(c) =>
              /\ Gt(MaxSample(c), cpus[c].old)
              /\ MaxField(maps', c) = MaxSample(c)
        /\ \A k \in DOMAIN MaxTable(maps) :
              Lt(MaxOf(MaxTable(maps')[k]), MaxOf(MaxTable(maps)[k])) =>
                  \E c \in CPUs : /\ MaxStore(c)
                                  /\ cpus[c].key = k
                                  /\ cpus[c].old # MaxOf(MaxTable(maps)[k])

C13_CompareThenStore == [][CompareThenStore]_vars

\* a merge has just stored its RTT, above the max it read, over the larger RTT
\* that the merge which has returned on the other CPU had stored meanwhile
C13_Witness ==
    /\ attached = "tcprtt"
    /\ \E c \in CPUs : \E o \in CPUs \ {c} :
          /\ cpus[c].pc = "pid_store"
          /\ cpus[o].pc = "ret" /\ cpus[o].path = "merge"
          /\ cpus[o].key = cpus[c].key
          /\ Gt(cpus[c].srtt, cpus[c].old)
          /\ maps.rtt_accum[cpus[c].key].max_us = cpus[c].srtt
          /\ Gt(cpus[o].srtt, cpus[c].srtt)
          /\ Gt(cpus[o].srtt, cpus[c].old)

\* --------------------------------------------------------------------- C14
\* the 32-bit max field fld of the record of k after a sample of duration d:
\* min(d, 2^32 - 1) in a new record, the larger of that and the old max in an
\* existing one
ClampedMax(acc, accN, k, d, fld) ==
    LET cap == IF Lt(d, U32_MAX) THEN d ELSE U32_MAX IN
    /\ k \in DOMAIN accN
    /\ accN[k][fld] = IF k \notin DOMAIN acc THEN cap
                      ELSE IF Lt(acc[k][fld], cap) THEN cap
                      ELSE acc[k][fld]

ClampNeverWrap ==
    /\ attached = "runqlat" =>
       \A task \in Tasks, t \in Times :
           LET m == maps.rq_start
               pid == task.tgid
           IN
           (clock' = t /\ pid \in DOMAIN m /\ ~Gt(Sub64(t, m[pid]), Ceil10s)
              /\ Room(maps.rqlat_accum, pid) /\ handle_sched_switch_rqlat(task, t))
           => ClampedMax(maps.rqlat_accum, maps'.rqlat_accum, pid, Sub64(t, m[pid]), "max_ns")
    /\ attached = "syscalldissect" =>
       \A pid \in Pids, nr \in Syscalls, t \in Times :
           LET m == maps.sc_start IN
           (clock' = t /\ pid \in DOMAIN m /\ ~Gt(Sub64(t, m[pid]), Ceil30s)
              /\ Room(maps.sc_accum, <<pid, nr>>) /\ handle_sys_exit(pid, nr, t))
           => ClampedMax(maps.sc_accum, maps'.sc_accum, <<pid, nr>>, Sub64(t, m[pid]),
                         "max_ns")
    /\ attached = "sockio" =>
       \A pid \in Pids, t \in Times :
           LET m == maps.recv_inflight IN
           (clock' = t /\ pid \in DOMAIN m /\ ~Gt(Sub64(t, m[pid].ts), Ceil30s)
              /\ Room(maps.sockio_accum, <<pid, m[pid].daddr, m[pid].dport>>)
              /\ handle_tcp_recvmsg_exit(pid, t))
           => ClampedMax(maps.sockio_accum, maps'.sockio_accum,
                         <<pid, m[pid].daddr, m[pid].dport>>, Sub64(t, m[pid].ts),
                         "max_recv_ns")
    /\ attached = "tcpconnlat" =>
       \A sk \in SockAddrs, d \in Daddrs, t \in Times :
           LET m == maps.conn_inflight IN
           (clock' = t /\ sk \in DOMAIN m /\ Room(maps.connlat_accum, m[sk].pid)
              /\ handle_set_state(sk, TCP_SYN_SENT, TCP_ESTABLISHED, d, t))
           => ClampedMax(maps.connlat_accum, maps'.connlat_accum, m[sk].pid,
                         Sub64(t, m[sk].ts), "max_ns")

\* C14: clamp, never wrap.  In runqlat, syscalldissect, sockio and tcpconnlat a
\* sample of 64-bit duration d that is applied sets the 32-bit max field to
\* min(d, 2^32 - 1) on insert and to max(old max, min(d, 2^32 - 1)) on merge,
\* so a d of 2^32 - 1 or more stores 0xFFFFFFFF, never the low 32 bits of d.
C14_ClampNeverWrap == [][ClampNeverWrap]_vars

\* runqlat: two samples of one process, 0 and 10 s (more than 2^32 - 1 ns);
\* the max is 0xFFFFFFFF
C14_Witness ==
    /\ attached = "runqlat"
    /\ last = "handle_sched_switch_rqlat"
    /\ events = 4
    /\ \E pid \in DOMAIN maps.rqlat_accum :
          /\ maps.rqlat_accum[pid].count = Ns(2)
          /\ maps.rqlat_accum[pid].total_ns = Ceil10s
          /\ maps.rqlat_accum[pid].max_ns = U32_MAX

\* --------------------------------------------------------------------- C15
\* the accumulation maps and the field of their records that counts samples
CountTables ==
    { "reclaim_accum", "futex_accum", "pgfault_accum", "rqlat_accum", "offcpu_accum",
      "sc_accum", "iolat_hist", "sockio_accum", "connlat_accum", "drop_accum",
      "throttle_accum", "wb_accum", "rtt_accum", "retrans_accum", "reset_accum",
      "mod_accum", "exec_accum", "ptrace_accum", "state_accum" }

CountOf(n, r) == IF n = "sockio_accum" THEN r.recv_count ELSE r.count

CountMonotone ==
    \A n \in CountTables : \A k \in DOMAIN maps[n] :
        k \in DOMAIN maps'[n] => ~Lt(CountOf(n, maps'[n][k]), CountOf(n, maps[n][k]))

\* C15: in every accumulation table the count of a key's record never
\* decreases from one state to the next, the counters being __u32 or __u64 as
\* declared.
C15_CountMonotone == [][CountMonotone]_vars

\* --------------------------------------------------------------------- C16
\* the maps that pair a begin with its end; the others accumulate
PairTables ==
    { "reclaim_start", "futex_start", "pgfault_start", "rq_start", "offcpu_start",
      "sc_start", "inflight", "recv_inflight", "conn_inflight" }
AccumTables == MapNames \ PairTables

\* max_entries of a map
Capacity(n) == IF n \in PairTables \cup { "oom_accum" } THEN MaxEntries ELSE MaxRecords

RecordsKept ==
    \A n \in AccumTables : \A k \in DOMAIN maps[n] : k \in DOMAIN maps'[n]

\* C17: the handlers never delete an accumulated record: a key present in an
\* accumulation table is present in every later state; only entries of
\* pairing tables are deleted.
C17_RecordsKept == [][RecordsKept]_vars

\* directreclaim: two pairings ended, both entries of reclaim_start deleted; the
\* record of the one sample that was not stale is in reclaim_accum
C17_Witness ==
    /\ attached = "directreclaim"
    /\ last = "handle_reclaim_end"
    /\ events = 4
    /\ begins = 2
    /\ maps.reclaim_start = EmptyMap
    /\ \E pid \in DOMAIN maps.reclaim_accum : maps.reclaim_accum[pid].count = One

\* --------------------------------------------------------------------- C18
Returned(c) == cpus[c].pc = "ret" /\ cpus[c].h = "log2_slot"

\* min(HIST_SLOTS - 1, floor(log2(us))) of us >= 1
MinLog2(us) ==
    IF Le(Ns(2^(HIST_SLOTS - 1)), us) THEN HIST_SLOTS - 1
    ELSE CHOOSE s \in 0 .. HIST_SLOTS - 2 : Le(Ns(2^s), us) /\ Lt(us, Ns(2^(s + 1)))

\* C18: log2_slot returns 0 for 0 and for 1, 1 for 2, 2 for 4, and
\* min(15, floor(log2(us))) for every us >= 1; its result is in 0..15 and is
\* non-decreasing in us.
C18_Log2Slot ==
    /\ \A c \in CPUs : Returned(c) =>
          /\ cpus[c].slot \in 0 .. 15
          /\ cpus[c].us = Zero => cpus[c].slot = 0
          /\ cpus[c].us = One => cpus[c].slot = 0
          /\ cpus[c].us = Ns(2) => cpus[c].slot = 1
          /\ cpus[c].us = Ns(4) => cpus[c].slot = 2
          /\ Le(One, cpus[c].us) => cpus[c].slot = MinLog2(cpus[c].us)
    /\ \A c, d \in CPUs : Returned(c) /\ Returned(d) /\ Le(cpus[c].us, cpus[d].us)
          => cpus[c].slot <= cpus[d].slot

\* 2 and 4 microseconds bucketed: buckets 1 and 2
C18_Witness ==
    /\ Returned(1) /\ cpus[1].us = Ns(2) /\ cpus[1].slot = 1
    /\ Returned(2) /\ cpus[2].us = Ns(4) /\ cpus[2].slot = 2

\* --------------------------------------------------------------------- C19
\* C19 as stated: every duration of 16384 microseconds or more is mapped by
\* log2_slot to bucket 15.
C19_AsStated ==
    \A c \in CPUs : Returned(c) /\ Le(Ns(16384), cpus[c].us) => cpus[c].slot = 15

\* C19: every duration of 32768 microseconds or more is mapped by log2_slot
\* to bucket 15.
C19_Saturation ==
    \A c \in CPUs : Returned(c) /\ Le(Ns(32768), cpus[c].us) => cpus[c].slot = 15

\* 32768 microseconds in bucket 15 next to 32767 microseconds in bucket 14
C19_Witness ==
    /\ Returned(1) /\ cpus[1].us = Ns(32768) /\ cpus[1].slot = 15
    /\ Returned(2) /\ cpus[2].us = Ns(32767) /\ cpus[2].slot = 14

\* --------------------------------------------------------------------- C20
\* a merge into the record of k took place and the record has the fields of fs
Overwritten(acc, accN, k, fs) ==
    k \in DOMAIN acc => /\ k \in DOMAIN accN
                        /\ \A f \in DOMAIN fs : accN[k][f] = fs[f]

DescriptiveOverwrite ==
    /\ attached = "execsnoop" =>
       \A pid \in Pids \ {0}, e \in Execs, t \in Times :
           (clock' = t /\ handle_sched_process_exec(pid, e, t))
           => Overwritten(maps.exec_accum, maps'.exec_accum, pid,
                          [ts |-> t, ppid |-> e.ppid, uid |-> e.uid, comm |-> e.comm,
                           filename |-> e.filename])
    /\ attached = "modload" =>
       \A name \in ModNames, t \in Times :
           (clock' = t /\ handle_do_init_module(name, t))
           => Overwritten(maps.mod_accum, maps'.mod_accum, mod_key(name),
                          [ts |-> t, name |-> name])
    /\ attached = "ptracedetect" =>
       \A req \in PtraceRequests \ {0}, tr \in Tracers, tg \in Targets, t \in Times :
           (clock' = t /\ tr.pid # 0 /\ handle_sys_enter_ptrace(req, tr, tg, t))
           => Overwritten(maps.ptrace_accum, maps'.ptrace_accum, <<tr.pid, tg>>,
                          [ts |-> t, request |-> req, tracer_comm |-> tr.comm])
    /\ attached = "tcpreset" =>
       \A pid \in Pids, sk \in Socks :
           handle_tcp_send_reset(pid, sk)
           => Overwritten(maps.reset_accum, maps'.reset_accum, pid,
                          [last_daddr |-> sk.daddr, last_dport |-> sk.dport])
    /\ attached = "tcpretrans" =>
       \A pid \in Pids, seg \in Segments :
           handle_tcp_retransmit(pid, seg)
           => Overwritten(maps.retrans_accum, maps'.retrans_accum, pid,
                          [last_sport |-> seg.sport, last_dport |-> seg.dport,
                           last_daddr |-> seg.daddr])
    /\ attached = "tcprtt" =>
       \A e \in RttEvents, r \in SrttUs \ { 4 } :
           handle_tcp_rcv_established(e[1], r, e[2])
           => Overwritten(maps.rtt_accum, maps'.rtt_accum,
                          <<e[1].daddr, bswap16(e[1].dport)>>, [last_pid |-> e[2]])
    /\ attached = "tcpconnlat" =>
       \A sk \in SockAddrs, d \in Daddrs, t \in Times :
           LET m == maps.conn_inflight IN
           (clock' = t /\ sk \in DOMAIN m
              /\ handle_set_state(sk, TCP_SYN_SENT, TCP_ESTABLISHED, d, t))
           => Overwritten(maps.connlat_accum, maps'.connlat_accum, m[sk].pid,
                          [last_pid |-> m[sk].pid, daddr |-> d])
    /\ attached = "iolatency" =>
       \A dev \in Devs, sector \in Sectors, t \in Times :
           LET m == maps.inflight IN
           (clock' = t /\ <<dev, sector>> \in DOMAIN m /\ m[<<dev, sector>>].pid # 0
              /\ Sub64(t, m[<<dev, sector>>].start_ns) # Zero
              /\ handle_block_rq_complete(dev, sector, t))
           => Overwritten(maps.iolat_hist, maps'.iolat_hist, m[<<dev, sector>>].pid,
                          [dev |-> dev])

\* C20: descriptive overwrite is unconditional.  In a sequential execution,
\* when a handler invocation of execsnoop, modload, ptracedetect, tcpreset,
\* tcpretrans, tcprtt, tcpconnlat or iolatency merges an event into an
\* existing record, every last-seen field of the record (timestamp, endpoint,
\* pid, name, iolatency's dev) has the value carried by that event.
C20_DescriptiveOverwrite == [][DescriptiveOverwrite]_vars

\* --------------------------------------------------------------------- C21
\* the keys whose record a step creates or changes
Touched(acc, accN) == { k \in DOMAIN accN : k \notin DOMAIN acc \/ acc[k] # accN[k] }

InjectiveKeys ==
    /\ attached = "modload" =>
       \A name \in ModNames, t \in Times :
           (clock' = t /\ handle_do_init_module(name, t))
           => \A k \in Touched(maps.mod_accum, maps'.mod_accum) :
                  maps'.mod_accum[k].name = name
    /\ attached = "ptracedetect" =>
       \A req \in PtraceRequests, tr \in Tracers, tg \in Targets, t \in Times :
           (clock' = t /\ handle_sys_enter_ptrace(req, tr, tg, t))
           => Touched(maps.ptrace_accum, maps'.ptrace_accum) \subseteq { <<tr.pid, tg>> }
    /\ attached = "sockstate" =>
       \A tr \in Transitions :
           handle_sock_set_state(tr[1], tr[2])
           => Touched(maps.state_accum, maps'.state_accum) \subseteq { tr }
    /\ attached = "sockio" =>
       \A pid \in Pids, sk \in Socks, sz \in Sizes :
           (handle_tcp_sendmsg(pid, sk, sz) \/ handle_tcp_cleanup_rbuf(pid, sk, sz))
           => Touched(maps.sockio_accum, maps'.sockio_accum)
                 \subseteq { <<pid, sk.daddr, bswap16(sk.dport)>> }
    /\ attached = "iolatency" =>
       \A i \in Issues, t \in Times :
           (clock' = t /\ handle_block_rq_issue(i[1], i[2][1], i[2][2], t))
           => Touched(maps.inflight, maps'.inflight) \subseteq { <<i[1], i[2][1]>> }

\* C21: key derivation is injective on logical identity.  The record an event
\* creates or changes is the record of that event's entity alone: the module
\* of that name, that tracer/target pair, that old/new state pair, that
\* pid/endpoint triple, that device/sector pair.
C21_InjectiveKeys == [][InjectiveKeys]_vars

\* --------------------------------------------------------------------- C22
\* the switch-in of a task whose wakeup entry (under the task's own id) is in
\* rq_start removes that entry and, below the ceiling and with room in
\* rqlat_accum, adds one sample to the record of the task's process
WakeupConsumed ==
    attached = "runqlat" =>
       \A task \in Tasks, t \in Times :
           LET m == maps.rq_start IN
           (task.pid # 0 /\ task.pid \in DOMAIN m /\ handle_sched_switch_rqlat(task, t))
           => /\ task.pid \notin DOMAIN maps'.rq_start
              /\ (~Gt(Sub64(t, m[task.pid]), Ceil10s) /\ Room(maps.rqlat_accum, task.tgid))
                 => Gains(maps.rqlat_accum, maps'.rqlat_accum, task.tgid,
                          Sub64(t, m[task.pid]), "total_ns", "count")

\* C22: in runqlat the begin and the end of one task use the same key.  For
\* every task, a thread whose id differs from its process id included, the
\* sched_switch that switches the task in finds the entry its sched_wakeup
\* wrote, removes it and (duration within 10 s, table not full) adds exactly
\* one sample; no wakeup entry stays behind once the task is switched in.
C22_WakeupConsumed == [][WakeupConsumed]_vars

\* --------------------------------------------------------------------- C23
OnlyEstablished ==
    attached = "tcpconnlat" =>
       \A sk \in SockAddrs, sp \in StatePairs, d \in Daddrs, t \in Times :
           (handle_set_state(sk, sp[1], sp[2], d, t)
              /\ ~(sp = <<TCP_SYN_SENT, TCP_ESTABLISHED>> /\ sk \in DOMAIN maps.conn_inflight))
           => /\ maps'.conn_inflight = maps.conn_inflight
              /\ maps'.connlat_accum = maps.connlat_accum

\* C23: in tcpconnlat a socket state change computes a duration only when it
\* is SYN_SENT -> ESTABLISHED for a socket with an in-flight entry; every other
\* (oldstate, newstate) pair leaves conn_inflight and connlat_accum unchanged.
C23_OnlyEstablished == [][OnlyEstablished]_vars

\* a connect is in flight and a state change of the socket was ignored
C23_Witness ==
    /\ attached = "tcpconnlat"
    /\ last = "handle_set_state"
    /\ events = 2
    /\ Cardinality(DOMAIN maps.conn_inflight) = 1
    /\ maps.connlat_accum = EmptyMap

\* --------------------------------------------------------------------- C24
\* the switch-in of a thread that left the CPU voluntarily adds nothing to
\* offcpu_accum; the sample a switch-in adds is the time the thread was off
InvoluntaryOnly ==
    attached = "offcpu" =>
    \A c \in CPUs, t \in Times :
        (clock' = t /\ thread_switch_in(c, t))
        => /\ cpus[c].state = TASK_INTERRUPTIBLE
                => maps'.offcpu_accum = maps.offcpu_accum
           /\ maps'.offcpu_accum # maps.offcpu_accum
                => Gains(maps.offcpu_accum, maps'.offcpu_accum, ThreadGroup,
                         Sub64(t, cpus[c].since), "total_ns", "count")

\* C24: offcpu counts only involuntary off-CPU time.  Every duration added to
\* offcpu_accum spans an interval that began with a switch-out in a state other
\* than TASK_INTERRUPTIBLE; the time a task spent off the CPU after a voluntary
\* switch-out is never accumulated, threads sharing one process id included.
C24_InvoluntaryOnly == [][InvoluntaryOnly]_vars

\* --------------------------------------------------------------------- C25
\* an invocation one of whose payload reads failed changes no table
FailedReadDrops ==
    /\ attached = "execsnoop" =>
       \A pid \in Pids \ {0}, e \in Execs, t \in Times :
           (clock' = t /\ (e.filename = "" \/ e.ppid = 0)
              /\ handle_sched_process_exec(pid, e, t))
           => maps' = maps
    /\ attached = "modload" =>
       \A t \in Times : (clock' = t /\ handle_do_init_module(<<>>, t)) => maps' = maps
    /\ attached = "tcpconnlat" =>
       \A sk \in SockAddrs, t \in Times :
           (clock' = t /\ handle_set_state(sk, TCP_SYN_SENT, TCP_ESTABLISHED, 0, t))
           => maps' = maps
    /\ attached = "tcpretrans" =>
       \A pid \in Pids, seg \in Segments :
           (seg.daddr = 0 /\ handle_tcp_retransmit(pid, seg)) => maps' = maps

\* C25: failed payload extraction drops the whole event.  If a read of the
\* event payload fails (filename or parent pid in execsnoop, module name in
\* modload, address in tcpconnlat and tcpretrans), the invocation changes no
\* table: no record is inserted or merged from partially read data.
C25_FailedReadDrops == [][FailedReadDrops]_vars

\* --------------------------------------------------------------------- C26
\* no handler invocation is in progress and the event budget is not used up
Ready == events < MaxEvents /\ \A c \in CPUs : cpus[c].pc = "idle"

WaitOps == { FUTEX_WAIT, FUTEX_WAIT_BITSET, FUTEX_LOCK_PI }

\* the exit of a call that is not a wait changes neither table; the sample an
\* exit adds is the duration of the call that exits, a wait
WaitsOnly ==
    attached = "lockwait" =>
    \A c \in CPUs, t \in Times :
        (clock' = clock \/ clock' = t) /\ thread_futex_exit(c, t)
        => /\ cpus[c].op % 128 \notin WaitOps
                => /\ maps'.futex_accum = maps.futex_accum
                   /\ maps'.futex_start = maps.futex_start
           /\ maps'.futex_accum # maps.futex_accum
                => /\ cpus[c].op % 128 \in WaitOps
                   /\ Gains(maps.futex_accum, maps'.futex_accum, ThreadGroup,
                            Sub64(t, cpus[c].since), "total_wait_ns", "count")

\* C27: lockwait measures only waiting futex operations.  Every sample added to
\* futex_accum is the duration of a futex call whose operation, masked with
\* 0x7F, is FUTEX_WAIT, FUTEX_WAIT_BITSET or FUTEX_LOCK_PI; the exit of a call
\* with another operation adds no sample and removes no pairing entry, calls
\* by different threads of one process included.
C27_WaitsOnly == [][WaitsOnly]_vars


\* --------------------------------------------------------------------- C28
\* the step is an invocation of the begin handler of pairing table n whose key
\* is k
BeginFor(n, k) ==
    CASE n = "reclaim_start" -> \E t \in Times : handle_reclaim_begin(k, t)
      [] n = "futex_start" -> \E op \in FutexOps, t \in Times : handle_futex_enter(k, op, t)
      [] n = "pgfault_start" -> \E t \in Times : handle_fault_enter(k, t)
      [] n = "rq_start" ->
            \E task \in Tasks, t \in Times : task.pid = k /\ handle_sched_wakeup(task, t)
      [] n = "offcpu_start" ->
            \E st \in TaskStates, nx \in SwitchPids, t \in Times :
                clock' = t /\ handle_sched_switch(k, st, nx, t)
      [] n = "sc_start" -> \E t \in Times : handle_sys_enter(k, t)
      [] n = "inflight" ->
            \E p \in Pids, t \in Times : handle_block_rq_issue(k[1], k[2], p, t)
      [] n = "recv_inflight" ->
            \E sk \in Socks, t \in Times : handle_tcp_recvmsg_enter(k, sk, t)
      [] n = "conn_inflight" ->
            \E p \in Pids, t \in Times : handle_tcp_v4_connect(k, p, t)

\* the step is an invocation of the end handler of pairing table n whose key
\* is k (in tcpconnlat: the transition SYN_SENT -> ESTABLISHED of socket k)
EndFor(n, k) ==
    CASE n = "reclaim_start" -> \E t \in Times : handle_reclaim_end(k, t)
      [] n = "futex_start" -> \E t \in Times : handle_futex_exit(k, t)
      [] n = "pgfault_start" -> \E m \in {0, 1}, t \in Times : handle_fault_exit(k, m, t)
      [] n = "rq_start" ->
            \E task \in Tasks, t \in Times :
                task.tgid = k /\ handle_sched_switch_rqlat(task, t)
      [] n = "offcpu_start" ->
            \E p \in SwitchPids, st \in TaskStates, t \in Times :
                clock' = t /\ handle_sched_switch(p, st, k, t)
      [] n = "sc_start" -> \E nr \in Syscalls, t \in Times : handle_sys_exit(k, nr, t)
      [] n = "inflight" -> \E t \in Times : handle_block_rq_complete(k[1], k[2], t)
      [] n = "recv_inflight" -> \E t \in Times : handle_tcp_recvmsg_exit(k, t)
      [] n = "conn_inflight" ->
            \E d \in Daddrs, t \in Times :
                handle_set_state(k, TCP_SYN_SENT, TCP_ESTABLISHED, d, t)

\* the entry of key k in table m, or <<>> when there is none
EntryOf(m, k) == IF k \in DOMAIN m THEN <<m[k]>> ELSE <<>>

OwnKeyOnly ==
    \A n \in PairTables :
        \A k \in DOMAIN maps[n] \cup DOMAIN maps'[n] :
            EntryOf(maps'[n], k) # EntryOf(maps[n], k)
            => \/ BeginFor(n, k) /\ k \in DOMAIN maps'[n]
               \/ EndFor(n, k) /\ k \in DOMAIN maps[n] /\ k \notin DOMAIN maps'[n]

\* C28: the entry of a key k in a pairing table changes only in a begin for k,
\* which leaves an entry under k, or in an end for k, which removes the entry;
\* every other handler invocation, also a begin or an end for another key and
\* a set_state that is not SYN_SENT -> ESTABLISHED, leaves it as it is, so an
\* entry whose end never arrives stays: nothing expires.
C28_OwnKeyOnly == [][OwnKeyOnly]_vars

\* tcpconnlat: two connects are in flight, the older since an earlier time, and
\* a state change that completed neither has just been handled
C28_Witness ==
    /\ attached = "tcpconnlat"
    /\ last = "handle_set_state"
    /\ events >= 3
    /\ maps.connlat_accum = EmptyMap
    /\ Cardinality(DOMAIN maps.conn_inflight) = 2
    /\ \E sk \in DOMAIN maps.conn_inflight : Lt(maps.conn_inflight[sk].ts, clock)


\* --------------------------------------------------------------------- C29
\* an invocation that its handler's filter rejects before any table operation
\* leaves every table as it is
FilteredNoEffect ==
    /\ attached = "kfreeskb" => (handle_kfree_skb(0) => maps' = maps)
    /\ attached = "ptracedetect" =>
       \A req \in PtraceRequests, tr \in Tracers, tg \in Targets, t \in Times :
           ((req \notin { PTRACE_ATTACH, PTRACE_SEIZE, PTRACE_POKETEXT, PTRACE_POKEDATA,
                          PTRACE_SETREGS } \/ tr.pid = 0)
              /\ handle_sys_enter_ptrace(req, tr, tg, t))
           => maps' = maps
    /\ attached = "netthroughput" =>
       /\ \A sz \in Sizes : net_handle_tcp_sendmsg(0, sz) => maps' = maps
       /\ \A pid \in Pids, sz \in Copied :
              ((pid = 0 \/ sz <= 0) /\ net_handle_tcp_cleanup_rbuf(pid, sz)) => maps' = maps
    /\ attached = "sockio" =>
       /\ \A sk \in Socks, sz \in Sizes : handle_tcp_sendmsg(0, sk, sz) => maps' = maps
       /\ \A pid \in {0, 1}, sk \in Socks, sz \in Copied :
              ((pid = 0 \/ sz <= 0) /\ handle_tcp_cleanup_rbuf(pid, sk, sz)) => maps' = maps
       /\ \A sk \in Socks, t \in Times : handle_tcp_recvmsg_enter(0, sk, t) => maps' = maps
       /\ \A t \in Times : handle_tcp_recvmsg_exit(0, t) => maps' = maps
    /\ attached = "tcprtt" =>
       \A e \in RttEvents, r \in SrttUs :
           (r \div 8 = 0 /\ handle_tcp_rcv_established(e[1], r, e[2])) => maps' = maps
    /\ attached = "directreclaim" =>
       \A t \in Times :
           (handle_reclaim_begin(0, t) \/ handle_reclaim_end(0, t)) => maps' = maps
    /\ attached = "lockwait" =>
       \A op \in FutexOps, t \in Times :
           (handle_futex_enter(0, op, t) \/ handle_futex_exit(0, t)) => maps' = maps
    /\ attached = "pgfault" =>
       \A m \in {0, 1}, t \in Times :
           (handle_fault_enter(0, t) \/ handle_fault_exit(0, m, t)) => maps' = maps
    /\ attached = "runqlat" =>
       \A task \in Tasks, t \in Times :
           (\/ task.pid = 0 /\ handle_sched_wakeup(task, t)
            \/ task.tgid = 0 /\ handle_sched_switch_rqlat(task, t))
           => maps' = maps
    /\ attached = "offcpu" =>
       \A st \in TaskStates, t \in Times :
           (clock' = t /\ handle_sched_switch(0, st, 0, t)) => maps' = maps
    /\ attached = "syscalldissect" =>
       \A nr \in Syscalls, t \in Times :
           (handle_sys_enter(0, t) \/ handle_sys_exit(0, nr, t)) => maps' = maps
    /\ attached = "tcpconnlat" =>
       \A sk \in SockAddrs, t \in Times : handle_tcp_v4_connect(sk, 0, t) => maps' = maps
    /\ attached = "wbstall" =>
       \A n \in PageCounts : handle_writeback_wait(0, Ns(n)) => maps' = maps
    /\ attached = "execsnoop" =>
       \A e \in Execs, t \in Times : handle_sched_process_exec(0, e, t) => maps' = maps
    /\ attached = "swapevict" =>
       ((handle_swap_readpage(0) \/ handle_swap_writepage(0)) => maps' = maps)

\* the step is the completion of a request that process id 0 issued: the test
\* of the stored process id rejects it
IdleCompletion(d, s, t) ==
    /\ <<d, s>> \in DOMAIN maps.inflight
    /\ maps.inflight[<<d, s>>].pid = 0
    /\ handle_block_rq_complete(d, s, t)

\* no table of a handler that rejects process id 0, drop reason 0, the other
\* ptrace requests or a smoothed RTT of 0 holds a record with such a key or value
NoFilteredRecord ==
    /\ \A n \in { "reclaim_start", "reclaim_accum", "futex_start", "futex_accum",
                  "pgfault_start", "pgfault_accum", "rq_start", "rqlat_accum",
                  "offcpu_start", "offcpu_accum", "sc_start", "recv_inflight",
                  "connlat_accum", "drop_accum", "wb_accum", "net_accum",
                  "exec_accum", "swap_accum", "iolat_hist" } :
           0 \notin DOMAIN maps[n]
    /\ \A k \in DOMAIN maps.sc_accum \cup DOMAIN maps.sockio_accum
                \cup DOMAIN maps.ptrace_accum : k[1] # 0
    /\ \A k \in DOMAIN maps.conn_inflight : maps.conn_inflight[k].pid # 0
    /\ \A k \in DOMAIN maps.ptrace_accum :
           maps.ptrace_accum[k].request \in { PTRACE_ATTACH, PTRACE_SEIZE, PTRACE_POKETEXT,
                                              PTRACE_POKEDATA, PTRACE_SETREGS }
    /\ \A k \in DOMAIN maps.rtt_accum :
           maps.rtt_accum[k].min_us # Zero /\ maps.rtt_accum[k].max_us # Zero

\* (C29 as stated: also the completion of a request issued by process id 0, which
\* handle_block_rq_complete rejects, leaves every table unchanged)
C29_AsStated ==
    [][attached = "iolatency" =>
       \A d \in Devs, s \in Sectors, t \in Times : IdleCompletion(d, s, t) => maps' = maps]_vars

FilteredEvent ==
    /\ FilteredNoEffect
    /\ attached = "iolatency" =>
       \A d \in Devs, s \in Sectors, t \in Times :
           IdleCompletion(d, s, t)
           => /\ maps'.iolat_hist = maps.iolat_hist
              /\ maps'.inflight = bpf_map_delete_elem(maps.inflight, <<d, s>>)

\* C29: an event that its handler's filter rejects (drop reason 0, a ptrace
\* request outside the five watched, process id 0, copied <= 0, smoothed RTT 0)
\* leaves every table unchanged, and no table of such a handler ever holds a
\* record with the rejected key or value; the one filter that comes after a
\* table operation is the test of the stored process id in
\* handle_block_rq_complete: there the pairing entry is removed and the
\* accumulation table is left unchanged.
C29_FilteredEvent == []NoFilteredRecord /\ [][FilteredEvent]_vars

\* kfreeskb: of two drops one had reason 0 and left no record
C29_Witness ==
    /\ attached = "kfreeskb"
    /\ last = "handle_kfree_skb"
    /\ events = 2
    /\ \E r \in Reasons \ {0} :
           DOMAIN maps.drop_accum = {r} /\ maps.drop_accum[r].count = One


\* --------------------------------------------------------------------- C30
\* the step leaves every accumulation table as it is
AccumUnchanged == \A n \in AccumTables : maps'[n] = maps[n]

\* an end that reads a clock value below the timestamp its entry holds computes
\* a difference above the handler's ceiling and adds nothing
ClockAnomaly ==
    /\ attached = "directreclaim" =>
       \A pid \in Pids, t \in Times :
           LET m == maps.reclaim_start IN
           (pid \in DOMAIN m /\ Lt(t, m[pid]) /\ handle_reclaim_end(pid, t))
           => Gt(Sub64(t, m[pid]), Ceil30s) /\ AccumUnchanged
    /\ attached = "lockwait" =>
       \A pid \in Pids, t \in Times :
           LET m == maps.futex_start IN
           (pid \in DOMAIN m /\ Lt(t, m[pid]) /\ handle_futex_exit(pid, t))
           => Gt(Sub64(t, m[pid]), Ceil30s) /\ AccumUnchanged
    /\ attached = "pgfault" =>
       \A pid \in Pids, mj \in {0, 1}, t \in Times :
           LET m == maps.pgfault_start IN
           (pid \in DOMAIN m /\ Lt(t, m[pid]) /\ handle_fault_exit(pid, mj, t))
           => Gt(Sub64(t, m[pid]), Ceil5s) /\ AccumUnchanged
    /\ attached = "runqlat" =>
       \A task \in Tasks, t \in Times :
           LET m == maps.rq_start IN
           (task.tgid \in DOMAIN m /\ Lt(t, m[task.tgid])
              /\ handle_sched_switch_rqlat(task, t))
           => Gt(Sub64(t, m[task.tgid]), Ceil10s) /\ AccumUnchanged
    /\ attached = "offcpu" =>
       \A p \in SkewPids, st \in TaskStates, n \in SkewPids, t \in Times :
           LET m == maps.offcpu_start IN
           (n # p /\ n \in DOMAIN m /\ Lt(t, m[n]) /\ clock' = t
              /\ handle_sched_switch(p, st, n, t))
           => ~Lt(Sub64(t, m[n]), Ceil30s) /\ AccumUnchanged
    /\ attached = "syscalldissect" =>
       \A pid \in Pids, nr \in Syscalls, t \in Times :
           LET m == maps.sc_start IN
           (pid \in DOMAIN m /\ Lt(t, m[pid]) /\ handle_sys_exit(pid, nr, t))
           => Gt(Sub64(t, m[pid]), Ceil30s) /\ AccumUnchanged
    /\ attached = "sockio" =>
       \A pid \in Pids, t \in Times :
           LET m == maps.recv_inflight IN
           (pid \in DOMAIN m /\ Lt(t, m[pid].ts) /\ handle_tcp_recvmsg_exit(pid, t))
           => Gt(Sub64(t, m[pid].ts), Ceil30s) /\ AccumUnchanged

\* C30: in every handler with a staleness check, an end whose clock value is
\* smaller than the start timestamp stored under its key computes, as the
\* unsigned 64-bit difference now - start, a duration above the ceiling, and
\* the sample is discarded: no accumulation record changes.
C30_ClockAnomaly == [][ClockAnomaly]_vars

\* directreclaim: a reclaim that began at a later clock value than the 1000 ns
\* its end read has been discarded
C30_Witness ==
    /\ attached = "directreclaim"
    /\ last = "handle_reclaim_end"
    /\ events = 2 /\ begins = 1
    /\ clock = Ns(1000)
    /\ maps.reclaim_start = EmptyMap
    /\ maps.reclaim_accum = EmptyMap


\* --------------------------------------------------------------------- C31
NoSelfPairing ==
    attached = "offcpu" =>
    \A p \in SwitchPids, st \in TaskStates, n \in SwitchPids, t \in Times :
        (clock' = t /\ handle_sched_switch(p, st, n, t))
        => /\ maps'.offcpu_accum # maps.offcpu_accum
                => /\ n \in DOMAIN maps.offcpu_start
                   /\ Gains(maps.offcpu_accum, maps'.offcpu_accum, n,
                            Sub64(t, maps.offcpu_start[n]), "total_ns", "count")
           /\ (n = p /\ p > 1 /\ st # TASK_INTERRUPTIBLE /\ Slot(maps.offcpu_start, p))
                => /\ maps'.offcpu_accum = maps.offcpu_accum
                   /\ p \in DOMAIN maps'.offcpu_start
                   /\ maps'.offcpu_start[p] = t

\* C31: in offcpu a sched_switch never pairs with itself.  A sample merged into
\* offcpu_accum has the duration now - (the timestamp offcpu_start held under
\* the next task's process id before the event), and a switch whose previous
\* and next tasks have the same process id adds no sample and leaves the start
\* entry it has just written in offcpu_start.
C31_NoSelfPairing == [][NoSelfPairing]_vars


\* --------------------------------------------------------------------- C32
\* slots[i] + ... + slots[HIST_SLOTS - 1]
RECURSIVE SlotSum(_, _)
SlotSum(slots, i) == IF i >= HIST_SLOTS THEN Zero ELSE AddRaw(slots[i], SlotSum(slots, i + 1))

\* no handler invocation is in progress
Quiescent == \A c \in CPUs : cpus[c].pc = "idle"

HistogramAgrees ==
    Quiescent => \A pid \in DOMAIN maps.iolat_hist :
                     Low32(SlotSum(maps.iolat_hist[pid].slots, 0)) = maps.iolat_hist[pid].count

\* the slot of record r that differs from record q in slot s alone, by + 1
OneSlot(q, r, s) ==
    /\ r.slots[s] = Add32(q.slots[s], One)
    /\ \A i \in 0 .. HIST_SLOTS - 1 : i # s => r.slots[i] = q.slots[i]

\* a step that changes the slots of a record is the increment of the slot
\* log2_slot(delta / 1000) of the invocation's sample, or the insert of a record
\* with that slot at 1 and the others at 0
OneSlotPerSample ==
    \A c \in CPUs :
        /\ io_add_slot(c)
             => /\ log2_slot(Div1000(cpus[c].delta)) % HIST_SLOTS
                       = log2_slot(Div1000(cpus[c].delta))
                /\ OneSlot(maps.iolat_hist[cpus[c].pid], maps'.iolat_hist[cpus[c].pid],
                           log2_slot(Div1000(cpus[c].delta)))
        /\ (io_insert(c) /\ maps'.iolat_hist # maps.iolat_hist)
             => /\ maps'.iolat_hist[cpus[c].pid].count = One
                /\ OneSlot([slots |-> [i \in 0 .. HIST_SLOTS - 1 |-> Zero]],
                           maps'.iolat_hist[cpus[c].pid],
                           log2_slot(Div1000(cpus[c].delta)))

\* C32: in iolatency every applied sample increments exactly one histogram
\* slot, the slot log2_slot(delta / 1000) (the mask with HIST_SLOTS - 1 leaves
\* the index as it is), so that whenever no handler invocation is in progress
\* the sum of the 16 slot counters of every record of iolat_hist equals its
\* count modulo 2^32, however concurrent completions interleave.
C32_HistogramAgrees == []HistogramAgrees /\ [][OneSlotPerSample]_vars

\* two completions for the process whose count was 2^32 - 1 have been merged:
\* the count has wrapped to 1, and so has the sum of the slots
C32_Witness ==
    /\ Quiescent
    /\ events = 4
    /\ 1 \in DOMAIN maps.iolat_hist
    /\ maps.iolat_hist[1].count = One
    /\ Gt(SlotSum(maps.iolat_hist[1].slots, 0), U32_MAX)


\* --------------------------------------------------------------------- C33
\* C33: in tcprtt, in every reachable state and under every interleaving of
\* handler invocations on one endpoint key, every record of rtt_accum has
\* 1 <= min_us <= max_us: the racy updates of min_us and max_us can lose an
\* extreme value, but the two never cross, and min_us is never 0.
C33_MinBelowMax ==
    \A k \in DOMAIN maps.rtt_accum :
        /\ Le(One, maps.rtt_accum[k].min_us)
        /\ Le(maps.rtt_accum[k].min_us, maps.rtt_accum[k].max_us)

\* three segments with smoothed RTTs of 10, 20 and 30 us were counted for one
\* endpoint and the minimum of 10 us was lost to a later store of 20
C33_Witness ==
    /\ attached = "tcprtt"
    /\ \A c \in CPUs : cpus[c].pc = "idle"
    /\ \E k \in DOMAIN maps.rtt_accum :
           /\ maps.rtt_accum[k].count = Ns(3)
           /\ maps.rtt_accum[k].sum_us = Ns(60)
           /\ maps.rtt_accum[k].min_us = Ns(20)
           /\ maps.rtt_accum[k].max_us = Ns(30)

====
